---- MODULE Spec2Model ----
(***************************************************************************)
(* Model of the demand-forecasting core of inventory-projection:           *)
(*   src/src/lib/aggregator.ts   (Aggregator)                              *)
(*   src/src/lib/forecasting.ts  (Metrics Engine and Forecaster)           *)
(*                                                                         *)
(* Conventions                                                             *)
(*  - A JavaScript Date value is an integer timestamp counted in ticks of  *)
(*    local time: ts = day * TicksPerDay + tick, day = days since          *)
(*    1970-01-01 (proleptic Gregorian calendar, fixed UTC offset, so       *)
(*    toISOString() and getTime() are injective images of ts and a Map     *)
(*    keyed by the ISO string is a map keyed by ts).                       *)
(*  - A Date OBJECT of the input is identified by the index of its order   *)
(*    in the order list (order i owns Date object i); firstOrderDate and   *)
(*    lastOrderDate hold such references, as in the source.                *)
(*  - Display-only strings (productName, periodLabel) are not modelled.    *)
(*  - A JS Map is a sequence of entries in insertion order.                *)
(***************************************************************************)
EXTENDS Integers, Sequences, FiniteSets, TLC

VARIABLES orders, aggregationPeriod, aggregatedData, pc, dateArg, startOut,
          input, output, settings, metrics, projections, uploads, timers

vars == <<orders, aggregationPeriod, aggregatedData, pc, dateArg, startOut,
          input, output, settings, metrics, projections, uploads, timers>>

\* ------------------------------------------------------------------------
\* Bounds of the model
\* ------------------------------------------------------------------------
MaxOrders == 3
MaxQty == 2
TicksPerDay == 2

Products == {"P1", "P2"}
NoCategory == "undefined"
Categories == {NoCategory, "A"}
Periods == {"daily", "weekly", "monthly"}
Idle == "idle"

\* ------------------------------------------------------------------------
\* JavaScript Date: civil calendar <-> day number (days since 1970-01-01)
\* ------------------------------------------------------------------------
\* month1 in 1..12
DaysFromCivil(y, month1, d) ==
  LET yy  == IF month1 <= 2 THEN y - 1 ELSE y
      era == yy \div 400
      yoe == yy - era * 400
      mp  == IF month1 > 2 THEN month1 - 3 ELSE month1 + 9
      doy == (153 * mp + 2) \div 5 + d - 1
      doe == yoe * 365 + yoe \div 4 - yoe \div 100 + doy
  IN  era * 146097 + doe - 719468

CivilFromDays(z) ==
  LET zz  == z + 719468
      era == zz \div 146097
      doe == zz - era * 146097
      yoe == (doe - doe \div 1460 + doe \div 36524 - doe \div 146096) \div 365
      doy == doe - (365 * yoe + yoe \div 4 - yoe \div 100)
      mp  == (5 * doy + 2) \div 153
      d   == doy - (153 * mp + 2) \div 5 + 1
      m1  == IF mp < 10 THEN mp + 3 ELSE mp - 9
      y   == yoe + era * 400 + (IF m1 <= 2 THEN 1 ELSE 0)
  IN  [year |-> y, month |-> m1 - 1, date |-> d]

DayOf(ts) == ts \div TicksPerDay
getFullYear(ts) == CivilFromDays(DayOf(ts)).year
getMonth(ts) == CivilFromDays(DayOf(ts)).month
getDate(ts) == CivilFromDays(DayOf(ts)).date
\* 0 = Sunday ... 6 = Saturday; 1970-01-01 was a Thursday
getDay(ts) == (DayOf(ts) + 4) % 7

\* new Date(year, monthIndex, day): local midnight; monthIndex and day may
\* lie outside their ranges and are carried over, as in ECMAScript MakeDay.
NewDate(y, m, d) ==
  (DaysFromCivil(y + m \div 12, (m % 12) + 1, 1) + d - 1) * TicksPerDay

\* Date.prototype.setDate / setMonth keep the time of day
setDate(ts, d) == NewDate(getFullYear(ts), getMonth(ts), d) + (ts % TicksPerDay)
setMonth(ts, m) == NewDate(getFullYear(ts), m, getDate(ts)) + (ts % TicksPerDay)

\* ------------------------------------------------------------------------
\* aggregator.ts: getPeriodStart
\* ------------------------------------------------------------------------
\* variant: the weekly branch without the Sunday case (diff = date - day + 1)
getPeriodStartNoSundayCase(date, period) ==
  LET d == date
  IN  CASE period = "daily" ->
             NewDate(getFullYear(d), getMonth(d), getDate(d))
        [] period = "weekly" ->
             NewDate(getFullYear(d), getMonth(d), getDate(d) - getDay(d) + 1)
        [] period = "monthly" ->
             NewDate(getFullYear(d), getMonth(d), 1)

getPeriodStart(date, period) ==
  LET d == date
  IN  CASE period = "daily" ->
             NewDate(getFullYear(d), getMonth(d), getDate(d))
        [] period = "weekly" ->
             LET day  == getDay(d)
                 diff == getDate(d) - day + (IF day = 0 THEN -6 ELSE 1)
             IN  NewDate(getFullYear(d), getMonth(d), diff)
        [] period = "monthly" ->
             NewDate(getFullYear(d), getMonth(d), 1)

\* variant: a month advanced as 30 days
NextPeriodThirtyDays(current, period) ==
  CASE period = "daily"   -> setDate(current, getDate(current) + 1)
    [] period = "weekly"  -> setDate(current, getDate(current) + 7)
    [] period = "monthly" -> setDate(current, getDate(current) + 30)

\* one step of the switch in generatePeriods / generateFuturePeriods
NextPeriod(current, period) ==
  CASE period = "daily"   -> setDate(current, getDate(current) + 1)
    [] period = "weekly"  -> setDate(current, getDate(current) + 7)
    [] period = "monthly" -> setMonth(current, getMonth(current) + 1)

\* ------------------------------------------------------------------------
\* Exact rational numbers [n, d] (d > 0, lowest terms) for JS numbers
\* ------------------------------------------------------------------------
RECURSIVE GCD(_, _)
GCD(a, b) == IF b = 0 THEN a ELSE GCD(b, a % b)

Abs(x) == IF x < 0 THEN -x ELSE x

Rat(n, d) ==
  LET g == GCD(Abs(n), Abs(d))
      s == IF d < 0 THEN -1 ELSE 1
  IN  [n |-> s * (n \div g), d |-> s * (d \div g)]

Zero == [n |-> 0, d |-> 1]

\* ------------------------------------------------------------------------
\* JavaScript numbers.  A number is a record [n, d]: a rational n/d in
\* lowest terms when d > 0, and NaN, Infinity, -Infinity when d = 0.
\* Results are exact while their denominator is at most Grid; a result
\* with a larger denominator is rounded down to a multiple of 1/Grid, and
\* Math.sqrt is rounded down to a multiple of 1/SqrtScale (of 10/SqrtScale
\* for arguments from 2000 on); IEEE doubles round every result as well,
\* to 53 bits.  -0 is not distinguished.
\* ------------------------------------------------------------------------
NaN == [n |-> 0, d |-> 0]
Infinity == [n |-> 1, d |-> 0]

GridStep == 100
Grid == GridStep * GridStep
SqrtScale == 1000

Number(k) == [n |-> k, d |-> 1]

Sign(k) == IF k > 0 THEN 1 ELSE IF k < 0 THEN -1 ELSE 0

isNaN(x) == x.d = 0 /\ x.n = 0

isFinite(x) == x.d # 0

\* floor(n/d * step * step) for d > 0, two digits groups at a time
FloorScaledExact(n, d, step) ==
  (n \div d) * step * step
    + (((n % d) * step) \div d) * step
    + ((((n % d) * step) % d) * step) \div d

\* a denominator too large for the products above is first brought below
\* 2^30 / step, numerator and denominator divided by the same factor
FloorScaled(n, d, step) ==
  IF d <= 1073741823 \div step THEN FloorScaledExact(n, d, step)
  ELSE FloorScaledExact(n \div (d \div (1073741823 \div step) + 1),
                        d \div (d \div (1073741823 \div step) + 1), step)

\* the number n/d (d # 0) as the program holds it
Num(n, d) ==
  IF Rat(n, d).d <= Grid THEN Rat(n, d)
  ELSE Rat(FloorScaled(Rat(n, d).n, Rat(n, d).d, GridStep), Grid)

Neg(x) == [x EXCEPT !.n = -@]

\* a * b stays below 2^30 in magnitude
Fits(a, b) == Abs(a) <= 1073741823 \div (IF b = 0 THEN 1 ELSE Abs(b))

\* x rounded down to a multiple of 1/GridStep when its denominator is larger
Coarse(x) ==
  IF x.d <= GridStep THEN x
  ELSE Rat((x.n \div x.d) * GridStep + ((x.n % x.d) * GridStep) \div x.d,
           GridStep)

\* x + y for finite x, y whose cross products fit
AddFinite(x, y) ==
  Num(x.n * (y.d \div GCD(x.d, y.d)) + y.n * (x.d \div GCD(x.d, y.d)),
      (x.d \div GCD(x.d, y.d)) * y.d)

\* x + y
Add(x, y) ==
  IF x.d = 0 \/ y.d = 0
    THEN IF isNaN(x) \/ isNaN(y) THEN NaN
         ELSE IF x.d = 0 /\ y.d = 0 /\ x.n # y.n THEN NaN
         ELSE IF x.d = 0 THEN x ELSE y
    ELSE IF Fits(x.n, y.d) /\ Fits(y.n, x.d) THEN AddFinite(x, y)
    ELSE AddFinite(Coarse(x), Coarse(y))

\* x - y
Sub(x, y) == Add(x, Neg(y))

\* x * y for finite x, y whose numerators' product fits
MulFinite(x, y) ==
  Num((x.n \div GCD(Abs(x.n), y.d)) * (y.n \div GCD(Abs(y.n), x.d)),
      (x.d \div GCD(Abs(y.n), x.d)) * (y.d \div GCD(Abs(x.n), y.d)))

\* x * y
Mul(x, y) ==
  IF x.d = 0 \/ y.d = 0
    THEN IF isNaN(x) \/ isNaN(y) \/ x.n = 0 \/ y.n = 0 THEN NaN
         ELSE [n |-> Sign(x.n) * Sign(y.n), d |-> 0]
    ELSE IF Fits(x.n, y.n) THEN MulFinite(x, y)
    ELSE MulFinite(Coarse(x), Coarse(y))

\* x / y
Div(x, y) ==
  IF isNaN(x) \/ isNaN(y) THEN NaN
  ELSE IF y.d = 0 THEN (IF x.d = 0 THEN NaN ELSE Zero)
  ELSE IF y.n = 0 THEN (IF x.n = 0 THEN NaN ELSE [n |-> Sign(x.n), d |-> 0])
  ELSE IF x.d = 0 THEN [n |-> x.n * Sign(y.n), d |-> 0]
  ELSE Mul(x, Rat(y.d, y.n))

\* x < y (false when either side is NaN)
Less(x, y) ==
  /\ ~isNaN(x)
  /\ ~isNaN(y)
  /\ x # y
  /\ IF x.d = 0 THEN x.n < 0
     ELSE IF y.d = 0 THEN y.n > 0
     ELSE Sub(x, y).n < 0

\* x <= y (false when either side is NaN)
LessEq(x, y) == ~isNaN(x) /\ ~isNaN(y) /\ (x = y \/ Less(x, y))

MathMax(x, y) ==
  IF isNaN(x) \/ isNaN(y) THEN NaN ELSE IF Less(x, y) THEN y ELSE x

MathMin(x, y) ==
  IF isNaN(x) \/ isNaN(y) THEN NaN ELSE IF Less(y, x) THEN y ELSE x

MathAbs(x) == [x EXCEPT !.n = Abs(@)]

MathFloor(x) == IF x.d = 0 THEN x ELSE Number(x.n \div x.d)

MathCeil(x) == IF x.d = 0 THEN x ELSE Number(-((-x.n) \div x.d))

\* Math.round: floor(x + 1/2)
MathRound(x) == IF x.d = 0 THEN x ELSE Number((2 * x.n + x.d) \div (2 * x.d))

\* floor of the square root of a natural number below 2^31
RECURSIVE ISqrt(_, _, _)
ISqrt(k, lo, hi) ==
  IF lo >= hi THEN lo
  ELSE IF ((lo + hi + 1) \div 2) * ((lo + hi + 1) \div 2) <= k
         THEN ISqrt(k, (lo + hi + 1) \div 2, hi)
         ELSE ISqrt(k, lo, (lo + hi + 1) \div 2 - 1)

\* floor(sqrt(x) * scale) / scale for a rational x >= 0
SqrtAtScale(x, scale) ==
  Rat(ISqrt(FloorScaled(x.n, x.d, scale), 0, 46340), scale)

\* three decimals below 2000, two decimals from there on
MathSqrt(x) ==
  IF isNaN(x) \/ x.n < 0 THEN NaN
  ELSE IF x.d = 0 THEN x
  ELSE IF x.n \div x.d < 2000 THEN SqrtAtScale(x, SqrtScale)
  ELSE SqrtAtScale(x, SqrtScale \div 10)

\* Math.pow(x, 2)
Square(x) == Mul(x, x)

\* Math.round(x * 100) / 100
Round2(x) == Div(MathRound(Mul(x, Number(100))), Number(100))

\* ------------------------------------------------------------------------
\* aggregator.ts: generatePeriods
\* ------------------------------------------------------------------------
\* while (current <= end) { periods.push(new Date(current)); step }
RECURSIVE PeriodLoop(_, _, _, _)
PeriodLoop(current, end, period, periods) ==
  IF current <= end
    THEN PeriodLoop(NextPeriod(current, period), end, period,
                    Append(periods, current))
    ELSE [periods |-> periods, current |-> current]

\* variant: `current` is the caller's start Date itself, not a copy
CurrentObjectAliased(startRef) == startRef

\* The Date object that `current` names in generatePeriods: 0 stands for a
\* freshly allocated object (getPeriodStart copies its argument and returns
\* a new Date), i > 0 for the Date object owned by order i.
CurrentObject(startRef) == 0

\* Returns the generated period starts and the order list as the call
\* leaves it (current.setDate / setMonth mutate the object `current` names).
generatePeriods(ords, startRef, endRef, period) ==
  LET loop  == PeriodLoop(getPeriodStart(ords[startRef].date, period),
                          getPeriodStart(ords[endRef].date, period),
                          period, <<>>)
      alias == CurrentObject(startRef)
  IN  [periods |-> loop.periods,
       orders  |-> IF alias = 0 THEN ords
                   ELSE [ords EXCEPT ![alias].date = loop.current]]

\* ------------------------------------------------------------------------
\* aggregator.ts: aggregateOrderData
\* ------------------------------------------------------------------------
\* productMap.get(productId): index of the entry, 0 when absent
MapIndex(productMap, productId) ==
  LET S == {k \in 1..Len(productMap) : productMap[k].productId = productId}
  IN  IF S = {} THEN 0 ELSE CHOOSE k \in S : TRUE

\* variant: the category field is left out of the new entry
NewProductAggNoCategory(order, i) ==
  [productId      |-> order.productId,
   category       |-> NoCategory,
   data           |-> <<>>,
   totalOrders    |-> 0,
   totalQuantity  |-> 0,
   firstOrderDate |-> i,
   lastOrderDate  |-> i]

\* the ProductAggregation created for the first order seen of a product
NewProductAgg(order, i) ==
  [productId      |-> order.productId,
   category       |-> order.category,
   data           |-> <<>>,
   totalOrders    |-> 0,
   totalQuantity  |-> 0,
   firstOrderDate |-> i,
   lastOrderDate  |-> i]

\* variant: firstOrderDate is never moved back to an earlier order
AccumulateOrderKeepFirst(agg, ords, i) ==
  LET order == ords[i]
  IN  [agg EXCEPT
         !.totalOrders    = @ + 1,
         !.totalQuantity  = @ + order.quantity,
         !.lastOrderDate  = IF order.date > ords[@].date THEN i ELSE @]

\* the accumulation of one order into its product's entry
AccumulateOrder(agg, ords, i) ==
  LET order == ords[i]
  IN  [agg EXCEPT
         !.totalOrders    = @ + 1,
         !.totalQuantity  = @ + order.quantity,
         !.firstOrderDate = IF order.date < ords[@].date THEN i ELSE @,
         !.lastOrderDate  = IF order.date > ords[@].date THEN i ELSE @]

\* first loop: group orders by product
RECURSIVE GroupOrders(_, _, _)
GroupOrders(ords, i, productMap) ==
  IF i > Len(ords) THEN productMap
  ELSE LET order == ords[i]
           k     == MapIndex(productMap, order.productId)
           pm    == IF k = 0 THEN Append(productMap, NewProductAgg(order, i))
                             ELSE productMap
           j     == IF k = 0 THEN Len(pm) ELSE k
       IN  GroupOrders(ords, i + 1,
                       [pm EXCEPT ![j] = AccumulateOrder(pm[j], ords, i)])

\* periodData.set(periodKey, zero bucket) for every generated period
RECURSIVE InitPeriodData(_, _, _)
InitPeriodData(allPeriods, productId, periodData) ==
  IF allPeriods = <<>> THEN periodData
  ELSE LET key    == Head(allPeriods)
           bucket == [period |-> key, productId |-> productId,
                      totalQuantity |-> 0, orderCount |-> 0,
                      avgQuantityPerOrder |-> Zero]
           S      == {k \in 1..Len(periodData) : periodData[k].period = key}
           next   == IF S = {} THEN Append(periodData, bucket)
                     ELSE [periodData EXCEPT ![CHOOSE k \in S : TRUE] = bucket]
       IN  InitPeriodData(Tail(allPeriods), productId, next)

\* variant: the bucket total is assigned, not accumulated
FoldOrderAssign(periodData, order, period) ==
  LET periodKey == getPeriodStart(order.date, period)
      S == {k \in 1..Len(periodData) : periodData[k].period = periodKey}
  IN  IF S = {} THEN periodData
      ELSE [periodData EXCEPT ![CHOOSE k \in S : TRUE] =
              [@ EXCEPT !.totalQuantity = order.quantity,
                        !.orderCount = @ + 1]]

\* the bucket of one order: periodData.get(periodKey), and the fold into it
FoldOrder(periodData, order, period) ==
  LET periodKey == getPeriodStart(order.date, period)
      S == {k \in 1..Len(periodData) : periodData[k].period = periodKey}
  IN  IF S = {} THEN periodData
      ELSE [periodData EXCEPT ![CHOOSE k \in S : TRUE] =
              [@ EXCEPT !.totalQuantity = @ + order.quantity,
                        !.orderCount = @ + 1]]

RECURSIVE FoldOrders(_, _, _, _, _)
FoldOrders(ords, i, productId, periodData, period) ==
  IF i > Len(ords) THEN periodData
  ELSE FoldOrders(ords, i + 1, productId,
                  IF ords[i].productId = productId
                    THEN FoldOrder(periodData, ords[i], period)
                    ELSE periodData,
                  period)

WithAverage(d) ==
  [d EXCEPT !.avgQuantityPerOrder =
     IF d.orderCount > 0 THEN Rat(d.totalQuantity, d.orderCount) ELSE Zero]

\* Array.prototype.sort with comparator a.period - b.period (stable)
RECURSIVE SortByPeriod(_)
SortByPeriod(s) ==
  IF Len(s) <= 1 THEN s
  ELSE LET front == SortByPeriod(SubSeq(s, 1, Len(s) - 1))
           x     == s[Len(s)]
           n     == Cardinality({k \in 1..Len(front) : front[k].period <= x.period})
       IN  SubSeq(front, 1, n) \o <<x>> \o SubSeq(front, n + 1, Len(front))

\* .map(d => ({...d, avgQuantityPerOrder: ...}))
Averaged(periodData) ==
  [k \in 1..Len(periodData) |-> WithAverage(periodData[k])]

\* the series of one product from its generated periods `gp`
ProductData(gp, productId, period) ==
  SortByPeriod(Averaged(
    FoldOrders(gp.orders, 1, productId,
               InitPeriodData(gp.periods, productId, <<>>), period)))

WithData(gp, productAgg, period) ==
  [agg    |-> [productAgg EXCEPT
                 !.data = ProductData(gp, productAgg.productId, period)],
   orders |-> gp.orders]

\* body of the second loop for one product
AggregateProduct(ords, productAgg, period) ==
  WithData(generatePeriods(ords, productAgg.firstOrderDate,
                           productAgg.lastOrderDate, period),
           productAgg, period)

RECURSIVE AggregateAll(_, _, _, _)
AggregateAll(ords, productMap, k, period) ==
  IF k > Len(productMap) THEN [map |-> productMap, orders |-> ords]
  ELSE LET r == AggregateProduct(ords, productMap[k], period)
       IN  AggregateAll(r.orders, [productMap EXCEPT ![k] = r.agg],
                        k + 1, period)

\* variant: the first order is read before the loops, which throws a
\* TypeError on an empty list; the thrown error stands in the result
aggregateOrderDataFirstOrder(ords, period) ==
  IF ords = <<>> THEN [map |-> <<"TypeError">>, orders |-> ords]
  ELSE AggregateAll(ords, GroupOrders(ords, 1, <<>>), 1, period)

\* result: the returned Map and the order list as the call leaves it
aggregateOrderData(ords, period) ==
  AggregateAll(ords, GroupOrders(ords, 1, <<>>), 1, period)

\* ------------------------------------------------------------------------
\* forecasting.ts (metrics part): statistical utilities
\* ------------------------------------------------------------------------
Undefined == <<>>

\* values.reduce((sum, v) => sum + v, 0)
RECURSIVE Sum(_)
Sum(values) ==
  IF values = <<>> THEN Zero
  ELSE Add(Sum(SubSeq(values, 1, Len(values) - 1)), values[Len(values)])

mean(values) ==
  IF Len(values) = 0 THEN Zero
  ELSE Div(Sum(values), Number(Len(values)))

\* values.map(v => Math.pow(v - avg, 2))
SquaredDiffs(values, avg) ==
  [k \in 1..Len(values) |-> Square(Sub(values[k], avg))]

\* variant: no guard for fewer than two values (0 / 0 for one value)
varianceUnguarded(values) ==
  Div(Sum(SquaredDiffs(values, mean(values))), Number(Len(values) - 1))

\* variant: the population variance (divisor n)
variancePopulation(values) ==
  IF Len(values) < 2 THEN Zero
  ELSE Div(Sum(SquaredDiffs(values, mean(values))), Number(Len(values)))

\* the sample variance (divisor n - 1)
variance(values) ==
  IF Len(values) < 2 THEN Zero
  ELSE Div(Sum(SquaredDiffs(values, mean(values))), Number(Len(values) - 1))

\* variant: the population standard deviation
stdDeviationPopulation(values) == MathSqrt(variancePopulation(values))

stdDeviation(values) == MathSqrt(variance(values))

\* [...values].sort((a, b) => a - b)
RECURSIVE SortNumbers(_)
SortNumbers(s) ==
  IF Len(s) <= 1 THEN s
  ELSE LET front == SortNumbers(SubSeq(s, 1, Len(s) - 1))
           x     == s[Len(s)]
           n     == Cardinality({k \in 1..Len(front) : ~Less(x, front[k])})
       IN  SubSeq(front, 1, n) \o <<x>> \o SubSeq(front, n + 1, Len(front))

\* `sorted` is the sorted copy; mid = Math.floor(sorted.length / 2)
MedianOfSorted(sorted) ==
  IF Len(sorted) % 2 # 0 THEN sorted[Len(sorted) \div 2 + 1]
  ELSE Div(Add(sorted[Len(sorted) \div 2], sorted[Len(sorted) \div 2 + 1]),
           Number(2))

median(values) ==
  IF Len(values) = 0 THEN Zero ELSE MedianOfSorted(SortNumbers(values))

coefficientOfVariation(values) ==
  IF mean(values) = Zero THEN Zero
  ELSE Div(stdDeviation(values), mean(values))

zScore(value, avg, std) ==
  IF std = Zero THEN Zero ELSE Div(Sub(value, avg), std)

\* ------------------------------------------------------------------------
\* forecasting.ts (metrics part): linearRegression
\* ------------------------------------------------------------------------
\* values.map((_, i) => i)
XValues(values) == [k \in 1..Len(values) |-> Number(k - 1)]

\* numerator += xDiff * yDiff over the loop
RegNumerator(values, xMean, yMean) ==
  Sum([k \in 1..Len(values) |->
         Mul(Sub(Number(k - 1), xMean), Sub(values[k], yMean))])

\* denominator += xDiff * xDiff over the loop
RegDenominator(values, xMean) ==
  Sum([k \in 1..Len(values) |-> Square(Sub(Number(k - 1), xMean))])

RegSlope(numerator, denominator) ==
  IF denominator # Zero THEN Div(numerator, denominator) ELSE Zero

\* predict: x => slope * x + intercept
predict(regression, x) ==
  Add(Mul(regression.slope, x), regression.intercept)

\* variant: a series without variation (ssTot = 0) is a perfect fit
RegRSquaredPerfectWhenFlat(values, line, yMean) ==
  LET ssRes == Sum([k \in 1..Len(values) |->
                      Square(Sub(values[k], predict(line, Number(k - 1))))])
      ssTot == Sum(SquaredDiffs(values, yMean))
  IN  MathMax(Zero, IF ssTot # Zero THEN Sub(Number(1), Div(ssRes, ssTot))
                    ELSE Number(1))

\* 1 - ssRes / ssTot over the fitted line, clamped at 0
RegRSquared(values, line, yMean) ==
  LET ssRes == Sum([k \in 1..Len(values) |->
                      Square(Sub(values[k], predict(line, Number(k - 1))))])
      ssTot == Sum(SquaredDiffs(values, yMean))
  IN  MathMax(Zero, IF ssTot # Zero THEN Sub(Number(1), Div(ssRes, ssTot))
                    ELSE Zero)

\* variant: the intercept is the mean of the values
RegLineMeanIntercept(values, slope, xMean, yMean) ==
  [slope |-> slope, intercept |-> yMean]

RegLine(values, slope, xMean, yMean) ==
  [slope |-> slope, intercept |-> Sub(yMean, Mul(slope, xMean))]

RegFit(values, line, yMean) ==
  [slope |-> line.slope, intercept |-> line.intercept,
   rSquared |-> RegRSquared(values, line, yMean)]

RegMeans(values, xMean, yMean) ==
  RegFit(values,
         RegLine(values,
                 RegSlope(RegNumerator(values, xMean, yMean),
                          RegDenominator(values, xMean)),
                 xMean, yMean),
         yMean)

\* values[0] || 0
FirstOrZero(values) ==
  IF values = <<>> \/ isNaN(values[1]) THEN Zero ELSE values[1]

linearRegression(values) ==
  IF Len(values) < 2
    THEN [slope |-> Zero, intercept |-> FirstOrZero(values), rSquared |-> Zero]
    ELSE RegMeans(values, mean(XValues(values)), mean(values))

\* ------------------------------------------------------------------------
\* forecasting.ts (metrics part): trend, outliers, seasonality
\* ------------------------------------------------------------------------
\* variant: the two thresholds are compared with >=
determineTrendNonStrict(slope, rSquared, avgValue) ==
  LET normalizedSlope == IF avgValue # Zero THEN Div(slope, avgValue) ELSE Zero
      significantRSquared == LessEq(Rat(1, 10), rSquared)
      significantSlope == LessEq(Rat(2, 100), MathAbs(normalizedSlope))
  IN  IF ~significantRSquared \/ ~significantSlope THEN "stable"
      ELSE IF Less(Zero, slope) THEN "increasing" ELSE "decreasing"

determineTrend(slope, rSquared, avgValue) ==
  LET normalizedSlope == IF avgValue # Zero THEN Div(slope, avgValue) ELSE Zero
      significantRSquared == Less(Rat(1, 10), rSquared)
      significantSlope == Less(Rat(2, 100), MathAbs(normalizedSlope))
  IN  IF ~significantRSquared \/ ~significantSlope THEN "stable"
      ELSE IF Less(Zero, slope) THEN "increasing" ELSE "decreasing"

\* data.map(d => d.quantity)
QuantitiesOf(data) == [k \in 1..Len(data) |-> data[k].quantity]

OutlierData(item, z) ==
  [date |-> item.period, period |-> item.period, quantity |-> item.quantity,
   zScore |-> z, type |-> IF Less(Zero, z) THEN "spike" ELSE "drop"]

\* the loop over data of detectOutliers
RECURSIVE OutlierLoop(_, _, _, _, _)
OutlierLoop(data, avg, std, zScoreThreshold, outliers) ==
  IF data = <<>> THEN outliers
  ELSE OutlierLoop(Tail(data), avg, std, zScoreThreshold,
         IF Less(zScoreThreshold,
                 MathAbs(zScore(Head(data).quantity, avg, std)))
           THEN Append(outliers,
                       OutlierData(Head(data),
                                   zScore(Head(data).quantity, avg, std)))
           ELSE outliers)

OutliersGiven(data, avg, std, zScoreThreshold) ==
  IF std = Zero THEN <<>>
  ELSE OutlierLoop(data, avg, std, zScoreThreshold, <<>>)

\* the default value of the parameter zScoreThreshold
DefaultZScoreThreshold == Rat(5, 2)

detectOutliers(data, zScoreThreshold) ==
  OutliersGiven(data, mean(QuantitiesOf(data)),
                stdDeviation(QuantitiesOf(data)), zScoreThreshold)

\* monthlyData[month]: the quantities of the items of that month
MonthlyData(data, month) ==
  LET InMonth(item) == getMonth(item.period) = month
  IN  QuantitiesOf(SelectSeq(data, InMonth))

\* variant: the indices are returned whatever their variance
SeasonalIndicesAnyVariance(monthlyAverages, overallAverage) ==
  IF overallAverage = Zero THEN Undefined
  ELSE [m \in 1..12 |-> Div(monthlyAverages[m], overallAverage)]

SeasonalIndices(monthlyAverages, overallAverage) ==
  IF overallAverage = Zero THEN Undefined
  ELSE LET seasonalIndices ==
             [m \in 1..12 |-> Div(monthlyAverages[m], overallAverage)]
       IN  IF Less(variance(seasonalIndices), Rat(1, 100)) THEN Undefined
           ELSE seasonalIndices

detectSeasonality(data) ==
  IF Len(data) < 12 THEN Undefined
  ELSE IF \E m \in 0..11 : Len(MonthlyData(data, m)) = 0 THEN Undefined
  ELSE LET monthlyAverages == [m \in 1..12 |-> mean(MonthlyData(data, m - 1))]
       IN  SeasonalIndices(monthlyAverages, mean(monthlyAverages))

\* ------------------------------------------------------------------------
\* aggregator.ts: period arithmetic of the projection horizon
\* ------------------------------------------------------------------------
getPeriodsPerWeek(period) ==
  CASE period = "daily"   -> Number(7)
    [] period = "weekly"  -> Number(1)
    [] period = "monthly" -> Rat(1, 4)

\* variant: a month of exactly 4 weekly periods
getPeriodsPerMonthFourWeeks(period) ==
  CASE period = "daily"   -> Number(30)
    [] period = "weekly"  -> Number(4)
    [] period = "monthly" -> Number(1)

getPeriodsPerMonth(period) ==
  CASE period = "daily"   -> Number(30)
    [] period = "weekly"  -> Rat(433, 100)
    [] period = "monthly" -> Number(1)

\* a timeframe is the sequence of the characters of the string
Spell(timeframe) ==
  CASE timeframe = "1_week"   -> <<"1", "_", "w", "e", "e", "k">>
    [] timeframe = "2_weeks"  -> <<"2", "_", "w", "e", "e", "k", "s">>
    [] timeframe = "4_weeks"  -> <<"4", "_", "w", "e", "e", "k", "s">>
    [] timeframe = "8_weeks"  -> <<"8", "_", "w", "e", "e", "k", "s">>
    [] timeframe = "12_weeks" -> <<"1", "2", "_", "w", "e", "e", "k", "s">>
    [] timeframe = "1_month"  -> <<"1", "_", "m", "o", "n", "t", "h">>
    [] timeframe = "2_months" -> <<"2", "_", "m", "o", "n", "t", "h", "s">>
    [] timeframe = "3_months" -> <<"3", "_", "m", "o", "n", "t", "h", "s">>
    [] timeframe = "6_months" -> <<"6", "_", "m", "o", "n", "t", "h", "s">>

\* the values of type ProjectionTimeframe
ProjectionTimeframe ==
  {Spell(t) : t \in {"1_week", "2_weeks", "4_weeks", "8_weeks", "12_weeks",
                     "1_month", "2_months", "3_months", "6_months"}}

\* the characters matched by \d and their values
DigitChars == {"0", "1", "2", "3", "4", "5", "6", "7", "8", "9"}

DigitValue(c) ==
  CASE c = "0" -> 0 [] c = "1" -> 1 [] c = "2" -> 2 [] c = "3" -> 3
    [] c = "4" -> 4 [] c = "5" -> 5 [] c = "6" -> 6 [] c = "7" -> 7
    [] c = "8" -> 8 [] c = "9" -> 9

\* parseInt(digits, 10) of a run of digits
RECURSIVE parseInt(_)
parseInt(digits) ==
  IF digits = <<>> THEN 0
  ELSE parseInt(SubSeq(digits, 1, Len(digits) - 1)) * 10
         + DigitValue(digits[Len(digits)])

\* the literal `word` stands at position p of chars
HasAt(chars, word, p) ==
  /\ p + Len(word) - 1 <= Len(chars)
  /\ SubSeq(chars, p, p + Len(word) - 1) = word

\* chars[i..j] is a run of digits followed at once by `word`
MatchesAt(chars, word, i, j) ==
  /\ \A k \in i..j : chars[k] \in DigitChars
  /\ HasAt(chars, word, j + 1)

\* the positions where a match of /(\d+)word/ can start
MatchStarts(chars, word) ==
  {i \in 1..Len(chars) : \E j \in i..Len(chars) : MatchesAt(chars, word, i, j)}

\* group 1 of chars.match(/(\d+)word/), the leftmost match anywhere in
\* the string; <<>> when the match is null
Capture(chars, word) ==
  IF MatchStarts(chars, word) = {} THEN <<>>
  ELSE LET i == CHOOSE m \in MatchStarts(chars, word) :
                   \A o \in MatchStarts(chars, word) : m <= o
           j == CHOOSE e \in i..Len(chars) : MatchesAt(chars, word, i, e)
       IN  SubSeq(chars, i, j)

\* timeframe.match(/(\d+)_week/)
WeekMatches(timeframe) == Capture(timeframe, <<"_", "w", "e", "e", "k">>)

\* timeframe.match(/(\d+)_month/)
MonthMatches(timeframe) ==
  Capture(timeframe, <<"_", "m", "o", "n", "t", "h">>)

timeframeToPeriods(timeframe, period) ==
  IF WeekMatches(timeframe) # <<>>
    THEN MathCeil(Mul(Number(parseInt(WeekMatches(timeframe))),
                      getPeriodsPerWeek(period))).n
  ELSE IF MonthMatches(timeframe) # <<>>
    THEN MathCeil(Mul(Number(parseInt(MonthMatches(timeframe))),
                      getPeriodsPerMonth(period))).n
  ELSE 4

\* the loop of generateFuturePeriods: step, then push
RECURSIVE FuturePeriodLoop(_, _, _, _)
FuturePeriodLoop(current, i, period, periods) ==
  IF i <= 0 THEN periods
  ELSE FuturePeriodLoop(NextPeriod(current, period), i - 1, period,
                        Append(periods, NextPeriod(current, period)))

\* variant: the loop starts at the last order's instant, not at the start
\* of its bucket
generateFuturePeriodsFromLastDate(lastDate, numPeriods, period) ==
  FuturePeriodLoop(lastDate, numPeriods, period, <<>>)

generateFuturePeriods(lastDate, numPeriods, period) ==
  FuturePeriodLoop(getPeriodStart(lastDate, period), numPeriods, period, <<>>)

\* ------------------------------------------------------------------------
\* forecasting.ts (metrics part): calculateProductMetrics
\* ------------------------------------------------------------------------
\* aggregation.data.map(d => d.totalQuantity)
TotalQuantities(aggregation) ==
  [k \in 1..Len(aggregation.data) |->
     Number(aggregation.data[k].totalQuantity)]

\* aggregation.data.map(d => ({period: d.period, quantity: d.totalQuantity}))
DataForOutliers(aggregation) ==
  [k \in 1..Len(aggregation.data) |->
     [period   |-> aggregation.data[k].period,
      quantity |-> Number(aggregation.data[k].totalQuantity)]]

\* Math.min(...quantities)
RECURSIVE MinOf(_)
MinOf(values) ==
  IF values = <<>> THEN Infinity
  ELSE MathMin(MinOf(Tail(values)), Head(values))

\* Math.max(...quantities)
RECURSIVE MaxOf(_)
MaxOf(values) ==
  IF values = <<>> THEN Neg(Infinity)
  ELSE MathMax(MaxOf(Tail(values)), Head(values))

MetricsOf(aggregation, period, quantities, avgQuantity, regression) ==
  [productId              |-> aggregation.productId,
   avgDailyDemand         |->
     Div(avgQuantity, Div(Number(7), getPeriodsPerWeek(period))),
   avgWeeklyDemand        |-> Mul(avgQuantity, getPeriodsPerWeek(period)),
   avgMonthlyDemand       |-> Mul(avgQuantity, getPeriodsPerMonth(period)),
   variance               |-> variance(quantities),
   stdDeviation           |-> stdDeviation(quantities),
   coefficientOfVariation |-> coefficientOfVariation(quantities),
   trend                  |->
     determineTrend(regression.slope, regression.rSquared, avgQuantity),
   trendSlope             |-> regression.slope,
   trendStrength          |-> regression.rSquared,
   seasonalityIndex       |->
     IF period = "monthly" THEN detectSeasonality(DataForOutliers(aggregation))
     ELSE Undefined,
   outliers               |->
     detectOutliers(DataForOutliers(aggregation), DefaultZScoreThreshold),
   minDemand              |-> MinOf(quantities),
   maxDemand              |-> MaxOf(quantities),
   medianDemand           |-> median(quantities)]

MetricsOfQuantities(aggregation, period, quantities) ==
  MetricsOf(aggregation, period, quantities, mean(quantities),
            linearRegression(quantities))

calculateProductMetrics(aggregation, period) ==
  MetricsOfQuantities(aggregation, period, TotalQuantities(aggregation))

\* a Map keyed by productId: the entries in insertion order
RECURSIVE calculateAllMetrics(_, _)
calculateAllMetrics(aggData, period) ==
  IF aggData = <<>> THEN <<>>
  ELSE IF Len(Head(aggData).data) > 0
    THEN <<calculateProductMetrics(Head(aggData), period)>>
           \o calculateAllMetrics(Tail(aggData), period)
    ELSE calculateAllMetrics(Tail(aggData), period)

\* ------------------------------------------------------------------------
\* forecasting.ts: t-distribution critical values
\* ------------------------------------------------------------------------
\* One table of T_CRITICAL: its rows in the order of Object.keys (the
\* integer keys ascending, then Infinity)
TRow(df, t) == [df |-> df, t |-> Rat(t, 1000)]

\* the table of the 90% level
TCritical90 ==
  <<TRow(Number(5), 2015), TRow(Number(10), 1812), TRow(Number(20), 1725),
    TRow(Number(30), 1697), TRow(Number(50), 1676), TRow(Number(100), 1660),
    TRow(Infinity, 1645)>>

\* the table of the 95% level
TCritical95 ==
  <<TRow(Number(5), 2571), TRow(Number(10), 2228), TRow(Number(20), 2086),
    TRow(Number(30), 2042), TRow(Number(50), 2009), TRow(Number(100), 1984),
    TRow(Infinity, 1960)>>

\* the table of the 99% level
TCritical99 ==
  <<TRow(Number(5), 4032), TRow(Number(10), 3169), TRow(Number(20), 2845),
    TRow(Number(30), 2750), TRow(Number(50), 2678), TRow(Number(100), 2626),
    TRow(Infinity, 2576)>>

\* variant: the tables of the 90% and the 99% level exchanged
T_CRITICALExchanged(confidence) ==
  CASE confidence = Rat(90, 100) -> TCritical99
    [] confidence = Rat(95, 100) -> TCritical95
    [] confidence = Rat(99, 100) -> TCritical90
    [] OTHER -> <<>>

\* T_CRITICAL[confidence], <<>> for a level without a table
T_CRITICAL(confidence) ==
  CASE confidence = Rat(90, 100) -> TCritical90
    [] confidence = Rat(95, 100) -> TCritical95
    [] confidence = Rat(99, 100) -> TCritical99
    [] OTHER -> <<>>

\* the for loop of getTCritical from row i on
RECURSIVE TCriticalLoop(_, _, _)
TCriticalLoop(confidenceTable, i, df) ==
  IF i > Len(confidenceTable) THEN confidenceTable[Len(confidenceTable)].t
  ELSE IF ~Less(confidenceTable[i].df, df) THEN confidenceTable[i].t
  ELSE TCriticalLoop(confidenceTable, i + 1, df)

\* variant: a level without a table falls back to the table of 0.90
getTCriticalFallback90(confidence, df) ==
  TCriticalLoop(IF T_CRITICAL(confidence) # <<>>
                  THEN T_CRITICAL(confidence)
                  ELSE T_CRITICAL(Rat(90, 100)),
                1, Number(df))

getTCritical(confidence, df) ==
  TCriticalLoop(IF T_CRITICAL(confidence) # <<>>
                  THEN T_CRITICAL(confidence)
                  ELSE T_CRITICAL(Rat(95, 100)),
                1, Number(df))

\* ------------------------------------------------------------------------
\* forecasting.ts: forecasting methods
\* ------------------------------------------------------------------------
Min(a, b) == IF a < b THEN a ELSE b

Max(a, b) == IF a > b THEN a ELSE b

\* variant: the window is taken from the start of the series
SliceFirst(values, n) ==
  IF n <= 0 THEN values
  ELSE SubSeq(values, 1, Min(n, Len(values)))

\* values.slice(-n)
SliceLast(values, n) ==
  IF n <= 0 THEN values
  ELSE SubSeq(values, Len(values) - Min(n, Len(values)) + 1, Len(values))

\* variant: the standard error is the standard deviation of the window
SmaOfRecentNoRootN(recentValues, n) ==
  [forecast      |-> mean(recentValues),
   standardError |-> stdDeviation(recentValues)]

SmaOfRecent(recentValues, n) ==
  [forecast      |-> mean(recentValues),
   standardError |-> Div(stdDeviation(recentValues), MathSqrt(Number(n)))]

simpleMovingAverage(values, periods) ==
  IF Len(values) = 0 THEN [forecast |-> Zero, standardError |-> Zero]
  ELSE SmaOfRecent(SliceLast(values, Min(periods, Len(values))),
                   Min(periods, Len(values)))

\* weights 1, 2, ..., n: totalWeight
TotalWeight(recentValues) ==
  Sum([i \in 1..Len(recentValues) |-> Number(i)])

\* variant: the largest weight is on the oldest value of the window
WmaForecastReversed(recentValues) ==
  Div(Sum([i \in 1..Len(recentValues) |->
             Mul(recentValues[i], Number(Len(recentValues) + 1 - i))]),
      TotalWeight(recentValues))

\* weightedSum / totalWeight
WmaForecast(recentValues) ==
  Div(Sum([i \in 1..Len(recentValues) |->
             Mul(recentValues[i], Number(i))]),
      TotalWeight(recentValues))

\* sum of weights[i] * (recentValues[i] - forecast)^2, over totalWeight
WmaVariance(recentValues, forecast) ==
  Div(Sum([i \in 1..Len(recentValues) |->
             Mul(Number(i), Square(Sub(recentValues[i], forecast)))]),
      TotalWeight(recentValues))

WmaOfForecast(recentValues, n, forecast) ==
  [forecast      |-> forecast,
   standardError |-> Div(MathSqrt(WmaVariance(recentValues, forecast)),
                         MathSqrt(Number(n)))]

WmaOfRecent(recentValues, n) ==
  WmaOfForecast(recentValues, n, WmaForecast(recentValues))

weightedMovingAverage(values, periods) ==
  IF Len(values) = 0 THEN [forecast |-> Zero, standardError |-> Zero]
  ELSE WmaOfRecent(SliceLast(values, Min(periods, Len(values))),
                   Min(periods, Len(values)))

\* residualSS: the sum of the squared residuals of the fitted line
ResidualSS(values, regression) ==
  Sum([k \in 1..Len(values) |->
         Square(Sub(values[k], predict(regression, Number(k - 1))))])

\* Math.sqrt(residualSS / (n - 2))
StandardErrorEstimate(values, regression) ==
  MathSqrt(Div(ResidualSS(values, regression), Number(Len(values) - 2)))

\* xMean = (n - 1) / 2
XMean(n) == Div(Number(n - 1), Number(2))

\* xVariance: the sum over the indices i of (i - xMean)^2
XVariance(n) ==
  Sum([k \in 1..n |-> Square(Sub(Number(k - 1), XMean(n)))])

\* variant: the same standard error at every point of the horizon
PointStandardErrorConstant(standardErrorEstimate, n, x) ==
  Mul(standardErrorEstimate,
      MathSqrt(Add(Number(1), Div(Number(1), Number(n)))))

\* se of the point at index x = n + i
PointStandardError(standardErrorEstimate, n, x) ==
  Mul(standardErrorEstimate,
      MathSqrt(Add(Add(Number(1), Div(Number(1), Number(n))),
                   Div(Square(Sub(Number(x), XMean(n))), XVariance(n)))))

\* variant: the prediction is pushed without the floor at 0
LrForecastsUnfloored(values, periodsAhead, regression, standardErrorEstimate) ==
  [forecasts      |->
     [i \in 1..periodsAhead |->
        predict(regression, Number(Len(values) + i - 1))],
   standardErrors |->
     [i \in 1..periodsAhead |->
        PointStandardError(standardErrorEstimate, Len(values),
                           Len(values) + i - 1)],
   rSquared       |-> regression.rSquared]

LrForecasts(values, periodsAhead, regression, standardErrorEstimate) ==
  [forecasts      |->
     [i \in 1..periodsAhead |->
        MathMax(Zero, predict(regression, Number(Len(values) + i - 1)))],
   standardErrors |->
     [i \in 1..periodsAhead |->
        PointStandardError(standardErrorEstimate, Len(values),
                           Len(values) + i - 1)],
   rSquared       |-> regression.rSquared]

LrOfRegression(values, periodsAhead, regression) ==
  LrForecasts(values, periodsAhead, regression,
              StandardErrorEstimate(values, regression))

linearRegressionForecast(values, periodsAhead) ==
  IF Len(values) < 2
    THEN [forecasts      |-> [i \in 1..periodsAhead |-> FirstOrZero(values)],
          standardErrors |-> [i \in 1..periodsAhead |-> Zero],
          rSquared       |-> Zero]
    ELSE LrOfRegression(values, periodsAhead, linearRegression(values))

\* ------------------------------------------------------------------------
\* forecasting.ts: confidence intervals
\* ------------------------------------------------------------------------
IntervalOfMargin(forecast, margin) ==
  <<MathMax(Zero, Sub(forecast, margin)), Add(forecast, margin)>>

\* variant: the degrees of freedom are the sample size itself
calculateConfidenceIntervalDfN(forecast, standardError, sampleSize, confidenceLevel) ==
  IntervalOfMargin(forecast,
    Mul(getTCritical(confidenceLevel, Max(1, sampleSize)),
        standardError))

calculateConfidenceInterval(forecast, standardError, sampleSize, confidenceLevel) ==
  IntervalOfMargin(forecast,
    Mul(getTCritical(confidenceLevel, Max(1, sampleSize - 1)),
        standardError))

\* ------------------------------------------------------------------------
\* forecasting.ts: generateProductProjection
\* ------------------------------------------------------------------------
ForecastMethod == {"sma", "wma", "linear_regression"}

\* aggregation.data.map(d => ({... projectedDemand: d.totalQuantity ...}))
HistoricalData(aggregation) ==
  [k \in 1..Len(aggregation.data) |->
     [period          |-> aggregation.data[k].period,
      projectedDemand |-> Number(aggregation.data[k].totalQuantity),
      confidenceLow   |-> Number(aggregation.data[k].totalQuantity),
      confidenceHigh  |-> Number(aggregation.data[k].totalQuantity),
      isForecast      |-> FALSE]]

\* the ProjectionPoint of one future period
ProjectionPoint(p, forecast, interval) ==
  [period          |-> p,
   projectedDemand |-> Round2(forecast),
   confidenceLow   |-> Round2(interval[1]),
   confidenceHigh  |-> Round2(interval[2]),
   isForecast      |-> TRUE]

\* cases 'sma' and 'wma': futurePeriods.map over one forecast
AveragePoints(futurePeriods, f, sampleSize, confidenceLevel) ==
  [k \in 1..Len(futurePeriods) |->
     ProjectionPoint(futurePeriods[k], f.forecast,
       calculateConfidenceInterval(f.forecast, f.standardError, sampleSize,
                                   confidenceLevel))]

\* case 'linear_regression': futurePeriods.map over forecasts[i]
RegressionPoints(futurePeriods, f, sampleSize, confidenceLevel) ==
  [k \in 1..Len(futurePeriods) |->
     ProjectionPoint(futurePeriods[k], f.forecasts[k],
       calculateConfidenceInterval(f.forecasts[k], f.standardErrors[k],
                                   sampleSize, confidenceLevel))]

\* the switch on settings.method
ProjectedData(historicalQuantities, futurePeriods, numFuturePeriods, st) ==
  CASE st.method = "sma" ->
         AveragePoints(futurePeriods,
                       simpleMovingAverage(historicalQuantities, st.periods),
                       Len(historicalQuantities), st.confidenceLevel)
    [] st.method = "wma" ->
         AveragePoints(futurePeriods,
                       weightedMovingAverage(historicalQuantities, st.periods),
                       Len(historicalQuantities), st.confidenceLevel)
    [] st.method = "linear_regression" ->
         RegressionPoints(futurePeriods,
                          linearRegressionForecast(historicalQuantities,
                                                   numFuturePeriods),
                          Len(historicalQuantities), st.confidenceLevel)
    [] OTHER -> <<>>

\* projectedData.reduce((sum, p) => sum + p.projectedDemand, 0)
TotalProjectedDemand(projectedData) ==
  Sum([k \in 1..Len(projectedData) |-> projectedData[k].projectedDemand])

AvgProjectedDemand(projectedData) ==
  IF Len(projectedData) > 0
    THEN Div(TotalProjectedDemand(projectedData), Number(Len(projectedData)))
    ELSE Zero

\* variant: the safety stock is rounded to the nearest unit
SafetyStockRounded(projectedData, st) ==
  MathRound(Mul(AvgProjectedDemand(projectedData),
                Div(Number(st.safetyStockPercent), Number(100))))

SafetyStock(projectedData, st) ==
  MathCeil(Mul(AvgProjectedDemand(projectedData),
               Div(Number(st.safetyStockPercent), Number(100))))

\* the returned ProductProjection
ProjectionOf(aggregation, m, st, projectedData) ==
  [productId           |-> aggregation.productId,
   category            |-> aggregation.category,
   historicalData      |-> HistoricalData(aggregation),
   projectedData       |-> projectedData,
   totalProjectedDemand |-> Round2(TotalProjectedDemand(projectedData)),
   avgProjectedDemand  |-> Round2(AvgProjectedDemand(projectedData)),
   suggestedReorderQty |->
     MathCeil(Add(TotalProjectedDemand(projectedData),
                  SafetyStock(projectedData, st))),
   reorderPoint        |->
     MathCeil(Add(Mul(m.avgDailyDemand, Number(st.leadTimeDays)),
                  SafetyStock(projectedData, st))),
   safetyStock         |-> SafetyStock(projectedData, st),
   confidenceLevel     |-> Mul(st.confidenceLevel, Number(100)),
   method              |-> st.method,
   metrics             |-> m]

\* `ords` holds the Date objects that aggregation.lastOrderDate refers to
generateProductProjection(aggregation, m, st, period, ords) ==
  ProjectionOf(aggregation, m, st,
    ProjectedData(TotalQuantities(aggregation),
                  generateFuturePeriods(ords[aggregation.lastOrderDate].date,
                                        timeframeToPeriods(st.timeframe, period),
                                        period),
                  timeframeToPeriods(st.timeframe, period), st))

\* metricsData.get(productId): <<>> when absent, else a one-element sequence
MetricsGet(metricsData, productId) ==
  LET IsProduct(m) == m.productId = productId
  IN  SubSeq(SelectSeq(metricsData, IsProduct), 1,
             Min(1, Len(SelectSeq(metricsData, IsProduct))))

RECURSIVE generateAllProjections(_, _, _, _, _)
generateAllProjections(aggData, metricsData, st, period, ords) ==
  IF aggData = <<>> THEN <<>>
  ELSE IF /\ MetricsGet(metricsData, Head(aggData).productId) # <<>>
          /\ Len(Head(aggData).data) > 0
    THEN <<generateProductProjection(
             Head(aggData),
             MetricsGet(metricsData, Head(aggData).productId)[1],
             st, period, ords)>>
           \o generateAllProjections(Tail(aggData), metricsData, st, period,
                                     ords)
    ELSE generateAllProjections(Tail(aggData), metricsData, st, period, ords)

\* ------------------------------------------------------------------------
\* Inputs
\* ------------------------------------------------------------------------
At(y, m, d, tick) == NewDate(y, m, d) + tick

\* Order dates sampled for each bucket width so that every width sees two
\* different dates in one bucket, an empty bucket between two orders, a
\* Sunday, times of day after midnight, and the 2024/2025 year boundary.
\*   daily:   Sun 29 Dec 2024 (late), Tue 31 Dec 2024, Thu 2 Jan 2025 (late)
\*   weekly:  Sun 29 Dec 2024 (late), Tue 31 Dec 2024, Sun 19 Jan 2025 (late)
\*   monthly: Sun 29 Dec 2024 (late), Tue 31 Dec 2024, Sun 2 Feb 2025 (late)
OrderDates(period) ==
  {At(2024, 11, 29, TicksPerDay - 1), At(2024, 11, 31, 0)} \cup
  CASE period = "daily"   -> {At(2025, 0, 2, TicksPerDay - 1)}
    [] period = "weekly"  -> {At(2025, 0, 19, TicksPerDay - 1)}
    [] period = "monthly" -> {At(2025, 1, 2, TicksPerDay - 1)}

\* The orders an input list is drawn from: quantity 1 without a category
\* on every product and date, larger quantities on the middle date, and
\* orders that carry a category on every product.
OrderRecord(period) ==
  [productId : Products, date : OrderDates(period), quantity : {1},
   category : {NoCategory}]
  \cup
  [productId : Products, date : {At(2024, 11, 31, 0)}, quantity : 2..MaxQty,
   category : {NoCategory}]
  \cup
  [productId : Products, date : {At(2024, 11, 31, 0)}, quantity : {1},
   category : Categories \ {NoCategory}]

\* ------------------------------------------------------------------------
\* Specification of the aggregator: an order list is built, then
\* aggregateOrderData is applied to it (and applied again)
\* ------------------------------------------------------------------------
InitAgg ==
  /\ orders = <<>>
  /\ aggregationPeriod \in Periods
  /\ aggregatedData = <<>>
  /\ pc = "input"
  /\ dateArg = Idle
  /\ startOut = Idle
  /\ input = Idle
  /\ output = Idle
  /\ uploads = <<>>
  /\ timers = <<>>
  /\ settings = Idle
  /\ metrics = <<>>
  /\ projections = <<>>

AddOrder ==
  /\ pc = "input"
  /\ Len(orders) < MaxOrders
  /\ \E o \in OrderRecord(aggregationPeriod) : orders' = Append(orders, o)
  /\ UNCHANGED <<uploads, timers, aggregationPeriod, aggregatedData, pc, dateArg, startOut,
                 input, output,
                 settings, metrics, projections>>

Aggregate ==
  /\ pc \in {"input", "aggregated"}
  /\ LET r == aggregateOrderData(orders, aggregationPeriod)
     IN  /\ aggregatedData' = r.map
         /\ orders' = r.orders
  /\ pc' = IF pc = "input" THEN "aggregated" ELSE "again"
  /\ UNCHANGED <<uploads, timers, aggregationPeriod, dateArg, startOut, input, output,
                 settings, metrics, projections>>

NextAgg == AddOrder \/ Aggregate

SpecAgg == InitAgg /\ [][NextAgg]_vars

\* ------------------------------------------------------------------------
\* Specification of getPeriodStart over every date of FirstYear and the
\* following years
\* ------------------------------------------------------------------------
SpanDays == 731

AllDates ==
  LET first == NewDate(2024, 0, 1)
  IN  first .. (first + SpanDays * TicksPerDay - 1)

InitDate ==
  /\ dateArg \in AllDates
  /\ aggregationPeriod \in Periods
  /\ startOut = Idle
  /\ input = Idle
  /\ output = Idle
  /\ uploads = <<>>
  /\ timers = <<>>
  /\ pc = "input"
  /\ orders = <<>>
  /\ aggregatedData = <<>>
  /\ settings = Idle
  /\ metrics = <<>>
  /\ projections = <<>>

ApplyPeriodStart ==
  /\ pc = "input"
  /\ startOut' = getPeriodStart(dateArg, aggregationPeriod)
  /\ pc' = "done"
  /\ UNCHANGED <<uploads, timers, dateArg, aggregationPeriod, orders, aggregatedData, settings,
                 metrics, projections, input, output>>

NextDate == ApplyPeriodStart

SpecDate == InitDate /\ [][NextDate]_vars

\* ------------------------------------------------------------------------
\* Specification of the pipeline of recalculateProjections: the order list
\* is aggregated, the metrics of every product are computed from the
\* aggregation, and the projections from both
\* ------------------------------------------------------------------------
MaxSeriesLen == 5
MaxMixedSeriesLen == 4
MaxZeroSeriesLen == 3
MaxShortSeriesLen == 2

Quantities == {10, 20, 100}

\* the sequences of length 1..len over the set S
SeriesOver(S, len) == UNION {[1..k -> S] : k \in 1..len}

\* start of the k-th bucket of a series (k = 1: the bucket of Monday 30 Dec
\* 2024)
BucketStart(period, k) ==
  CASE period = "daily"   -> NewDate(2024, 11, 30 + (k - 1))
    [] period = "weekly"  -> NewDate(2024, 11, 30 + 7 * (k - 1))
    [] period = "monthly" -> NewDate(2024, 11 + (k - 1), 1)

\* the order list with one order of quantity q[k] late in the k-th bucket
SeriesOrders(q, period) ==
  [k \in 1..Len(q) |->
     [productId |-> "P1",
      date      |-> BucketStart(period, k) + (TicksPerDay - 1),
      quantity  |-> q[k],
      category  |-> NoCategory]]

\* every method on the default horizon and window
BaseSettings ==
  [method : ForecastMethod, timeframe : {Spell("1_week")}, periods : {2},
   safetyStockPercent : {20}, leadTimeDays : {7},
   confidenceLevel : {Rat(95, 100)}]

\* the timeframe string "0_weeks": an empty horizon
ZeroWeeks == <<"0", "_", "w", "e", "e", "k", "s">>

\* other horizons, windows and confidence levels
OtherSettings ==
  [method : ForecastMethod,
   timeframe : {Spell("2_weeks"), Spell("1_month"), ZeroWeeks},
   periods : {3}, safetyStockPercent : {0}, leadTimeDays : {0},
   confidenceLevel : {Rat(90, 100), Rat(99, 100)}]

\* the series and settings the pipeline is run on; <<>> is the empty
\* order list
PipelineInputs ==
  ((SeriesOver({10, 100}, MaxSeriesLen)
      \cup SeriesOver(Quantities, MaxMixedSeriesLen)
      \cup SeriesOver({0, 10}, MaxZeroSeriesLen) \cup {<<>>})
     \X BaseSettings)
  \cup (SeriesOver(Quantities, MaxShortSeriesLen) \X OtherSettings)

InitPipeline ==
  /\ aggregationPeriod \in Periods
  /\ \E in \in PipelineInputs :
       /\ orders = SeriesOrders(in[1], aggregationPeriod)
       /\ settings = in[2]
  /\ aggregatedData = <<>>
  /\ metrics = <<>>
  /\ projections = <<>>
  /\ pc = "input"
  /\ dateArg = Idle
  /\ startOut = Idle
  /\ input = Idle
  /\ output = Idle
  /\ uploads = <<>>
  /\ timers = <<>>

CalculateMetrics ==
  /\ pc = "aggregated"
  /\ metrics' = calculateAllMetrics(aggregatedData, aggregationPeriod)
  /\ pc' = "metrics"
  /\ UNCHANGED <<uploads, timers, orders, aggregationPeriod, aggregatedData, dateArg, startOut,
                 input, output,
                 settings, projections>>

GenerateProjections ==
  /\ pc = "metrics"
  /\ projections' = generateAllProjections(aggregatedData, metrics, settings,
                                           aggregationPeriod, orders)
  /\ pc' = "projected"
  /\ UNCHANGED <<uploads, timers, orders, aggregationPeriod, aggregatedData, dateArg, startOut,
                 input, output,
                 settings, metrics>>

NextPipeline == Aggregate \/ CalculateMetrics \/ GenerateProjections

SpecPipeline == InitPipeline /\ [][NextPipeline]_vars

\* ------------------------------------------------------------------------
\* Specification of calculateConfidenceInterval over sample sizes on both
\* sides of every breakpoint of the t table
\* ------------------------------------------------------------------------
MaxSampleSize == 103

ConfidenceLevels == {Rat(90, 100), Rat(95, 100), Rat(99, 100)}

\* the arguments forecast, standardError, sampleSize, confidenceLevel;
\* 0.80 and 0.85 are levels without a table
IntervalInputs ==
  [forecast : {Number(15)}, standardError : {Number(1), Number(5)},
   sampleSize : 0..MaxSampleSize,
   confidenceLevel : ConfidenceLevels \cup {Rat(80, 100), Rat(85, 100)}]

InitInterval ==
  /\ input \in IntervalInputs
  /\ output = Idle
  /\ uploads = <<>>
  /\ timers = <<>>
  /\ pc = "input"
  /\ orders = <<>>
  /\ aggregationPeriod = "daily"
  /\ aggregatedData = <<>>
  /\ dateArg = Idle
  /\ startOut = Idle
  /\ settings = Idle
  /\ metrics = <<>>
  /\ projections = <<>>

ApplyConfidenceInterval ==
  /\ pc = "input"
  /\ output' = calculateConfidenceInterval(input.forecast, input.standardError,
                                           input.sampleSize,
                                           input.confidenceLevel)
  /\ pc' = "done"
  /\ UNCHANGED <<uploads, timers, input, orders, aggregationPeriod, aggregatedData, dateArg,
                 startOut, settings, metrics, projections>>

NextInterval == ApplyConfidenceInterval

SpecInterval == InitInterval /\ [][NextInterval]_vars

\* ------------------------------------------------------------------------
\* Specification of determineTrend over slopes, R-squared values and means
\* on both sides of the two thresholds
\* ------------------------------------------------------------------------
MaxSlope == 3

\* the arguments slope, rSquared, avgValue
TrendInputs ==
  [slope : {Number(k) : k \in -MaxSlope..MaxSlope},
   rSquared : {Zero, Rat(1, 10), Rat(11, 100), Rat(1, 2), Number(1)},
   avgValue : {Zero, Number(50), Number(100), Number(150)}]

InitTrend ==
  /\ input \in TrendInputs
  /\ output = Idle
  /\ uploads = <<>>
  /\ timers = <<>>
  /\ pc = "input"
  /\ orders = <<>>
  /\ aggregationPeriod = "daily"
  /\ aggregatedData = <<>>
  /\ dateArg = Idle
  /\ startOut = Idle
  /\ settings = Idle
  /\ metrics = <<>>
  /\ projections = <<>>

ApplyDetermineTrend ==
  /\ pc = "input"
  /\ output' = determineTrend(input.slope, input.rSquared, input.avgValue)
  /\ pc' = "done"
  /\ UNCHANGED <<uploads, timers, input, orders, aggregationPeriod, aggregatedData, dateArg,
                 startOut, settings, metrics, projections>>

NextTrend == ApplyDetermineTrend

SpecTrend == InitTrend /\ [][NextTrend]_vars

\* ------------------------------------------------------------------------
\* Specification of linearRegression over the series y_i = a + b * i
\* ------------------------------------------------------------------------
MaxIntercept == 10
MaxLineSlope == 10
MaxLineLen == 5

\* the series a, a + b, ..., a + (n - 1) * b
LineValues(a, b, n) == [k \in 1..n |-> Number(a + b * (k - 1))]

LineInputs ==
  {[a |-> a, b |-> b, values |-> LineValues(a, b, n)] :
     a \in 0..MaxIntercept, b \in -MaxLineSlope..MaxLineSlope,
     n \in 2..MaxLineLen}

InitRegression ==
  /\ input \in LineInputs
  /\ output = Idle
  /\ uploads = <<>>
  /\ timers = <<>>
  /\ pc = "input"
  /\ orders = <<>>
  /\ aggregationPeriod = "daily"
  /\ aggregatedData = <<>>
  /\ dateArg = Idle
  /\ startOut = Idle
  /\ settings = Idle
  /\ metrics = <<>>
  /\ projections = <<>>

ApplyLinearRegression ==
  /\ pc = "input"
  /\ output' = linearRegression(input.values)
  /\ pc' = "done"
  /\ UNCHANGED <<uploads, timers, input, orders, aggregationPeriod, aggregatedData, dateArg,
                 startOut, settings, metrics, projections>>

NextRegression == ApplyLinearRegression

SpecRegression == InitRegression /\ [][NextRegression]_vars

\* ------------------------------------------------------------------------
\* Specification of timeframeToPeriods over timeframe strings, those of
\* type ProjectionTimeframe and others
\* ------------------------------------------------------------------------
MaxDigits == 2

\* runs of at most MaxDigits digits
DigitRuns == UNION {[1..k -> {"0", "1", "3"}] : k \in 0..MaxDigits}

\* the words after the separator
Units ==
  {<<"w", "e", "e", "k">>, <<"w", "e", "e", "k", "s">>,
   <<"m", "o", "n", "t", "h">>, <<"m", "o", "n", "t", "h", "s">>,
   <<"w", "e", "e", "k", "e", "n", "d">>, <<"y", "e", "a", "r">>}

\* a timeframe string in its parts: prefix, digits, separator, unit
TimeframeInputs ==
  [prefix : {<<>>, <<"x">>}, digits : DigitRuns, sep : {"_", " "},
   unit : Units]

\* the string of the parts
StringOf(in) == in.prefix \o in.digits \o <<in.sep>> \o in.unit

InitTimeframe ==
  /\ aggregationPeriod \in Periods
  /\ input \in TimeframeInputs
  /\ output = Idle
  /\ uploads = <<>>
  /\ timers = <<>>
  /\ pc = "input"
  /\ orders = <<>>
  /\ aggregatedData = <<>>
  /\ dateArg = Idle
  /\ startOut = Idle
  /\ settings = Idle
  /\ metrics = <<>>
  /\ projections = <<>>

ApplyTimeframeToPeriods ==
  /\ pc = "input"
  /\ output' = timeframeToPeriods(StringOf(input), aggregationPeriod)
  /\ pc' = "done"
  /\ UNCHANGED <<uploads, timers, orders, aggregationPeriod, aggregatedData, dateArg, startOut,
                 input, settings, metrics, projections>>

NextTimeframe == ApplyTimeframeToPeriods

SpecTimeframe == InitTimeframe /\ [][NextTimeframe]_vars

\* ------------------------------------------------------------------------
\* Specification of the metrics of long series: the order list of a series
\* of about a year of buckets is aggregated and its metrics are computed
\* ------------------------------------------------------------------------
MaxSeasonLen == 13

\* the quantities of the long series
SeasonBase == {0, 10}
SeasonPeak == {0, 10, 13, 14, 20}

\* the series of length len that is b everywhere and h in bucket p
PeakSeries(len, b, p, h) == [k \in 1..len |-> IF k = p THEN h ELSE b]

SeasonInputs ==
  {PeakSeries(len, b, p, h) :
     len \in 11..MaxSeasonLen, b \in SeasonBase, p \in 1..MaxSeasonLen,
     h \in SeasonPeak}

InitSeason ==
  /\ aggregationPeriod \in Periods
  /\ \E q \in SeasonInputs : orders = SeriesOrders(q, aggregationPeriod)
  /\ settings = Idle
  /\ aggregatedData = <<>>
  /\ metrics = <<>>
  /\ projections = <<>>
  /\ pc = "input"
  /\ dateArg = Idle
  /\ startOut = Idle
  /\ input = Idle
  /\ output = Idle
  /\ uploads = <<>>
  /\ timers = <<>>

NextSeason == Aggregate \/ CalculateMetrics

SpecSeason == InitSeason /\ [][NextSeason]_vars

\* ------------------------------------------------------------------------
\* Specification of the application: the state of the InventoryContext
\* reducer (orders, settings, aggregationPeriod, aggregatedData, metrics,
\* projections) with the asynchronous steps of useFileParser and
\* useProjections. A callback works on the `state` of the render that
\* created it: `uploads` holds the processFiles calls in flight, each with
\* that state and the files still to parse, and `timers` the setTimeout
\* callbacks of recalculateProjections, each with that state. The fields
\* files, summary, isLoading and error of the reducer state are left out.
\* ------------------------------------------------------------------------
MaxAppOrders == 2
MaxCalls == 1
MaxTimers == 1

\* InventoryContext.tsx: defaultSettings
defaultSettings ==
  [method |-> "wma", timeframe |-> Spell("4_weeks"), periods |-> 4,
   safetyStockPercent |-> 20, leadTimeDays |-> 7,
   confidenceLevel |-> Rat(95, 100)]

\* the partial settings a change of the settings panel can merge in
SettingsChanges == {[method |-> "sma"], [method |-> "wma"]}

\* the bucket widths a change of the settings panel can select
AppPeriods == {"weekly", "monthly"}

\* { ...state.settings, ...action.payload }
MergeSettings(st, payload) ==
  [f \in DOMAIN st |-> IF f \in DOMAIN payload THEN payload[f] ELSE st[f]]

\* result.validRecords of the files a user can upload; the empty list is
\* a file that does not parse
AppFiles ==
  {<<[productId |-> "P1", date |-> At(2024, 11, 30, 1), quantity |-> 10,
      category |-> NoCategory]>>,
   <<[productId |-> "P1", date |-> At(2025, 0, 8, 1), quantity |-> 20,
      category |-> NoCategory]>>,
   <<>>}

\* the file lists handed to one processFiles call
FileLists == UNION {[1..k -> AppFiles] : k \in 1..MaxAppOrders}

RECURSIVE RecordCount(_)
RecordCount(files) ==
  IF files = <<>> THEN 0 ELSE Len(Head(files)) + RecordCount(Tail(files))

\* the records of the files still to parse in the calls in flight
RECURSIVE PendingRecords(_)
PendingRecords(calls) ==
  IF calls = <<>> THEN 0
  ELSE RecordCount(Head(calls).files) + PendingRecords(Tail(calls))

\* the `state` of the current render, as the callbacks created in it see it
RenderState(ords, period, st) ==
  [orders |-> ords, aggregationPeriod |-> period, settings |-> st]

\* the sequence s without its k-th element
RemoveAt(s, k) == SubSeq(s, 1, k - 1) \o SubSeq(s, k + 1, Len(s))

\* the call after its first file: the loop of processFiles goes on with
\* the same processFile, or the call ends
AfterFile(calls, u) ==
  IF Len(calls[u].files) > 1
    THEN [calls EXCEPT ![u].files = Tail(@)]
    ELSE RemoveAt(calls, u)

InitApp ==
  /\ orders = <<>>
  /\ aggregatedData = <<>>
  /\ metrics = <<>>
  /\ projections = <<>>
  /\ settings = defaultSettings
  /\ aggregationPeriod = "weekly"
  /\ uploads = <<>>
  /\ timers = <<>>
  /\ pc = "app"
  /\ dateArg = Idle
  /\ startOut = Idle
  /\ input = Idle
  /\ output = Idle

\* processFiles(files): the first processFile runs up to `await parseFile`
ProcessFiles ==
  /\ Len(uploads) < MaxCalls
  /\ \E files \in FileLists :
       /\ Len(orders) + PendingRecords(uploads) + RecordCount(files)
            <= MaxAppOrders
       /\ uploads' = Append(uploads,
                            [state |-> RenderState(orders, aggregationPeriod,
                                                   settings),
                             files |-> files])
  /\ UNCHANGED <<orders, aggregationPeriod, aggregatedData, pc, dateArg,
                 startOut, input, output, settings, metrics, projections,
                 timers>>

\* parseFile resolves with valid records: processFile runs to its end
FileParsed ==
  \E u \in 1..Len(uploads) :
    /\ Head(uploads[u].files) # <<>>
    /\ orders' = orders \o Head(uploads[u].files)
    /\ aggregatedData' =
         aggregateOrderData(uploads[u].state.orders \o Head(uploads[u].files),
                            uploads[u].state.aggregationPeriod).map
    /\ metrics' = calculateAllMetrics(aggregatedData',
                                      uploads[u].state.aggregationPeriod)
    /\ projections' =
         generateAllProjections(aggregatedData', metrics',
                                uploads[u].state.settings,
                                uploads[u].state.aggregationPeriod,
                                uploads[u].state.orders
                                  \o Head(uploads[u].files))
    /\ uploads' = AfterFile(uploads, u)
    /\ UNCHANGED <<aggregationPeriod, pc, dateArg, startOut, input, output,
                   settings, timers>>

\* parseFile resolves without a valid record: processFile returns early
FileRejected ==
  \E u \in 1..Len(uploads) :
    /\ Head(uploads[u].files) = <<>>
    /\ uploads' = AfterFile(uploads, u)
    /\ UNCHANGED <<orders, aggregationPeriod, aggregatedData, pc, dateArg,
                   startOut, input, output, settings, metrics, projections,
                   timers>>

\* recalculateProjections of a render with state `s`: the timer it sets
ScheduledBy(s) ==
  IF Len(s.orders) = 0 THEN timers ELSE Append(timers, s)

\* changeSettings: UPDATE_SETTINGS, then the effect of the new render
ChangeSettings ==
  /\ Len(timers) < MaxTimers
  /\ \E payload \in SettingsChanges :
       /\ settings' = MergeSettings(settings, payload)
       /\ timers' = ScheduledBy(RenderState(orders, aggregationPeriod,
                                            MergeSettings(settings, payload)))
  /\ UNCHANGED <<orders, aggregationPeriod, aggregatedData, pc, dateArg,
                 startOut, input, output, metrics, projections, uploads>>

\* changePeriod: SET_AGGREGATION_PERIOD, then the effect of the new render
ChangePeriod ==
  /\ Len(timers) < MaxTimers
  /\ \E period \in AppPeriods \ {aggregationPeriod} :
       /\ aggregationPeriod' = period
       /\ timers' = ScheduledBy(RenderState(orders, period, settings))
  /\ UNCHANGED <<orders, aggregatedData, pc, dateArg, startOut, input,
                 output, settings, metrics, projections, uploads>>

\* the Recalculate button: recalculateProjections of the current render
Recalculate ==
  /\ Len(timers) < MaxTimers
  /\ orders # <<>>
  /\ timers' = ScheduledBy(RenderState(orders, aggregationPeriod, settings))
  /\ UNCHANGED <<orders, aggregationPeriod, aggregatedData, pc, dateArg,
                 startOut, input, output, settings, metrics, projections,
                 uploads>>

\* the callback of setTimeout in recalculateProjections
TimerFires ==
  /\ timers # <<>>
  /\ aggregatedData' = aggregateOrderData(Head(timers).orders,
                                          Head(timers).aggregationPeriod).map
  /\ metrics' = calculateAllMetrics(aggregatedData',
                                    Head(timers).aggregationPeriod)
  /\ projections' =
       generateAllProjections(aggregatedData', metrics',
                              Head(timers).settings,
                              Head(timers).aggregationPeriod,
                              Head(timers).orders)
  /\ timers' = Tail(timers)
  /\ UNCHANGED <<orders, aggregationPeriod, pc, dateArg, startOut, input,
                 output, settings, uploads>>

NextApp ==
  \/ ProcessFiles
  \/ FileParsed
  \/ FileRejected
  \/ ChangeSettings
  \/ ChangePeriod
  \/ Recalculate
  \/ TimerFires

SpecApp == InitApp /\ [][NextApp]_vars

\* ------------------------------------------------------------------------
\* Specification of detectOutliers over the series of up to MaxOutlierLen
\* buckets, and over one series of nine buckets
\* ------------------------------------------------------------------------
MaxOutlierLen == 8

OutlierQuantities == {0, 1, 100}

\* eight empty buckets and a ninth of 100
NineBuckets == [k \in 1..9 |-> IF k = 9 THEN 100 ELSE 0]

\* dataForOutliers of a series: one item per daily bucket
DataForOutliersOf(q) ==
  [k \in 1..Len(q) |->
     [period |-> BucketStart("daily", k), quantity |-> Number(q[k])]]

OutlierInputs ==
  {DataForOutliersOf(q) :
     q \in SeriesOver(OutlierQuantities, MaxOutlierLen)
            \cup {<<>>, NineBuckets}}

InitOutliers ==
  /\ input \in OutlierInputs
  /\ output = Idle
  /\ uploads = <<>>
  /\ timers = <<>>
  /\ pc = "input"
  /\ orders = <<>>
  /\ aggregationPeriod = "daily"
  /\ aggregatedData = <<>>
  /\ dateArg = Idle
  /\ startOut = Idle
  /\ settings = Idle
  /\ metrics = <<>>
  /\ projections = <<>>

ApplyDetectOutliers ==
  /\ pc = "input"
  /\ output' = detectOutliers(input, DefaultZScoreThreshold)
  /\ pc' = "done"
  /\ UNCHANGED <<uploads, timers, input, orders, aggregationPeriod,
                 aggregatedData, dateArg, startOut, settings, metrics,
                 projections>>

NextOutliers == ApplyDetectOutliers

SpecOutliers == InitOutliers /\ [][NextOutliers]_vars

\* ------------------------------------------------------------------------
\* Helpers of the properties
\* ------------------------------------------------------------------------
Aggregated == pc \in {"aggregated", "again"}

OneDay == TicksPerDay

MonthIndex(ts) == 12 * getFullYear(ts) + getMonth(ts)

\* b is exactly one bucket width after a
OneWidthApart(a, b, period) ==
  CASE period = "daily"   -> b = a + OneDay
    [] period = "weekly"  -> b = a + 7 * OneDay
    [] period = "monthly" -> /\ MonthIndex(b) = MonthIndex(a) + 1
                             /\ getDate(a) = 1 /\ getDate(b) = 1
                             /\ a % TicksPerDay = 0 /\ b % TicksPerDay = 0

\* the bucket [s, s + width) that contains an instant
InBucket(ts, s, period) ==
  CASE period = "daily"   -> s <= ts /\ ts < s + OneDay
    [] period = "weekly"  -> s <= ts /\ ts < s + 7 * OneDay
    [] period = "monthly" -> /\ s <= ts
                             /\ MonthIndex(s) = MonthIndex(ts)

OrdersOf(productId) == {i \in 1..Len(orders) : orders[i].productId = productId}

RECURSIVE SumField(_, _)
SumField(s, k) ==
  IF k = 0 THEN 0 ELSE s[k].totalQuantity + SumField(s, k - 1)

RECURSIVE SumOrderQty(_, _)
SumOrderQty(productId, k) ==
  IF k = 0 THEN 0
  ELSE (IF orders[k].productId = productId THEN orders[k].quantity ELSE 0)
       + SumOrderQty(productId, k - 1)

\* ------------------------------------------------------------------------
\* C1  Density: in every product's series consecutive buckets start exactly
\* one bucket width apart (1 day, 7 days, 1 calendar month), buckets without
\* orders included.
\* ------------------------------------------------------------------------
C1_Density ==
  Aggregated =>
    \A e \in 1..Len(aggregatedData) :
      \A k \in 1..(Len(aggregatedData[e].data) - 1) :
        OneWidthApart(aggregatedData[e].data[k].period,
                      aggregatedData[e].data[k + 1].period,
                      aggregationPeriod)

C1_Witness ==
  /\ Aggregated
  /\ \E e \in 1..Len(aggregatedData) :
       /\ Len(aggregatedData[e].data) >= 3
       /\ \E k \in 2..(Len(aggregatedData[e].data) - 1) :
            aggregatedData[e].data[k].orderCount = 0

\* ------------------------------------------------------------------------
\* C2  Conservation: for each product the bucket totals add up to the sum
\* of the quantities of that product's orders and to the series'
\* totalQuantity.
\* ------------------------------------------------------------------------
C2_Conservation ==
  Aggregated =>
    \A e \in 1..Len(aggregatedData) :
      LET agg == aggregatedData[e]
      IN  /\ SumField(agg.data, Len(agg.data))
               = SumOrderQty(agg.productId, Len(orders))
          /\ SumField(agg.data, Len(agg.data)) = agg.totalQuantity

\* two orders of one product folded into one bucket, another bucket follows
C2_Witness ==
  /\ Aggregated
  /\ \E e \in 1..Len(aggregatedData) :
       /\ Len(aggregatedData[e].data) >= 2
       /\ \E k \in 1..Len(aggregatedData[e].data) :
            aggregatedData[e].data[k].orderCount >= 2

\* ------------------------------------------------------------------------
\* C3  Every series is strictly increasing by period start, begins with the
\* bucket of the product's earliest order and ends with the bucket of its
\* latest order; orders that all fall in one bucket give a series of
\* length 1, in whatever order they appear in the input.
\* ------------------------------------------------------------------------
C3_Ordered ==
  Aggregated =>
    \A e \in 1..Len(aggregatedData) :
      LET agg == aggregatedData[e]
          own == OrdersOf(agg.productId)
          n   == Len(agg.data)
      IN  /\ n >= 1
          /\ \A k \in 1..(n - 1) : agg.data[k].period < agg.data[k + 1].period
          /\ \E i \in own :
               /\ \A j \in own : orders[i].date <= orders[j].date
               /\ InBucket(orders[i].date, agg.data[1].period, aggregationPeriod)
          /\ \E i \in own :
               /\ \A j \in own : orders[j].date <= orders[i].date
               /\ InBucket(orders[i].date, agg.data[n].period, aggregationPeriod)
          /\ (\A i, j \in own :
                getPeriodStart(orders[i].date, aggregationPeriod)
                  = getPeriodStart(orders[j].date, aggregationPeriod))
             => n = 1

\* a later order of the product appears first in the input
C3_Witness ==
  /\ Aggregated
  /\ \E i, j \in 1..Len(orders) :
       /\ i < j
       /\ orders[i].productId = orders[j].productId
       /\ orders[i].date > orders[j].date
       /\ Len(aggregatedData[MapIndex(aggregatedData, orders[i].productId)].data) > 1

\* orders of one product on different dates in one bucket: series of length 1
C3_WitnessSingle ==
  /\ Aggregated
  /\ \E i, j \in 1..Len(orders) :
       /\ orders[i].productId = orders[j].productId
       /\ orders[i].date # orders[j].date
       /\ Len(aggregatedData[MapIndex(aggregatedData, orders[i].productId)].data) = 1

\* ------------------------------------------------------------------------
\* C4  getPeriodStart: the same day for daily, the Monday of the week for
\* weekly (a Sunday maps to the Monday six days earlier, a Monday to
\* itself), the first of the month for monthly; the date lies in
\* [start, start + one bucket width).
\* ------------------------------------------------------------------------
C4_PeriodStart ==
  pc = "done" =>
    /\ startOut % TicksPerDay = 0
    /\ InBucket(dateArg, startOut, aggregationPeriod)
    /\ aggregationPeriod = "daily" => DayOf(startOut) = DayOf(dateArg)
    /\ aggregationPeriod = "weekly" =>
         /\ getDay(startOut) = 1
         /\ getDay(dateArg) = 0 => DayOf(startOut) = DayOf(dateArg) - 6
         /\ getDay(dateArg) = 1 => DayOf(startOut) = DayOf(dateArg)
    /\ aggregationPeriod = "monthly" =>
         /\ getDate(startOut) = 1
         /\ getMonth(startOut) = getMonth(dateArg)
         /\ getFullYear(startOut) = getFullYear(dateArg)

\* a Sunday on the first of a month: its week began in the previous month
C4_Witness ==
  /\ pc = "done"
  /\ aggregationPeriod = "weekly"
  /\ getDay(dateArg) = 0
  /\ getDate(dateArg) = 1
  /\ dateArg % TicksPerDay # 0
  /\ getMonth(startOut) # getMonth(dateArg)

\* ------------------------------------------------------------------------
\* C6  Idempotence: a call of aggregateOrderData leaves the order list and
\* its records unchanged, and a second call on the same list with the same
\* bucket width returns the same series.
\* ------------------------------------------------------------------------
C6_Idempotent ==
  [][/\ pc' # pc => orders' = orders
     /\ pc' = "again" => aggregatedData' = aggregatedData]_vars

C6_Witness ==
  /\ pc = "again"
  /\ Len(orders) >= 2
  /\ \E e \in 1..Len(aggregatedData) : Len(aggregatedData[e].data) >= 2

\* ------------------------------------------------------------------------
\* C7  (as claimed) The category of a series is the first non-null
\* category among the product's orders in input order.
\* ------------------------------------------------------------------------
FirstNonNullCategory(productId) ==
  LET S == {i \in OrdersOf(productId) : orders[i].category # NoCategory}
  IN  IF S = {} THEN NoCategory
      ELSE orders[CHOOSE i \in S : \A j \in S : i <= j].category

C7_FirstNonNull ==
  Aggregated =>
    \A e \in 1..Len(aggregatedData) :
      aggregatedData[e].category = FirstNonNullCategory(aggregatedData[e].productId)

\* C7  (amended) The category of a series is the category of the product's
\* first order in input order, absent when that order has none; later
\* orders never change it.
C7_FirstOrderCategory ==
  Aggregated =>
    \A e \in 1..Len(aggregatedData) :
      LET own == OrdersOf(aggregatedData[e].productId)
      IN  aggregatedData[e].category
            = orders[CHOOSE i \in own : \A j \in own : i <= j].category

\* the first order of a product has no category, a later one has
C7_Witness ==
  /\ Aggregated
  /\ \E i, j \in 1..Len(orders) :
       /\ i < j
       /\ orders[i].productId = orders[j].productId
       /\ \A h \in 1..(i - 1) : orders[h].productId # orders[i].productId
       /\ orders[i].category = NoCategory
       /\ orders[j].category # NoCategory
       /\ aggregatedData[MapIndex(aggregatedData, orders[i].productId)].category
            = NoCategory

\* ------------------------------------------------------------------------
\* Helpers of the properties of the pipeline
\* ------------------------------------------------------------------------
\* the quantities of the order list, one per order
InputSeries == [k \in 1..Len(orders) |-> orders[k].quantity]

MetricsDone == pc \in {"metrics", "projected"}

Projected == pc = "projected"

\* ------------------------------------------------------------------------
\* C5: on an empty order list aggregateOrderData returns an empty mapping,
\* and calculateAllMetrics and generateAllProjections applied to that empty
\* mapping return empty mappings as well.
\* ------------------------------------------------------------------------
C5_EmptyPipeline ==
  orders = <<>> =>
    /\ (Aggregated \/ MetricsDone) => aggregatedData = <<>>
    /\ MetricsDone => metrics = <<>>
    /\ Projected => projections = <<>>

C5_Witness ==
  /\ orders = <<>>
  /\ Projected
  /\ aggregatedData = <<>>
  /\ projections = <<>>

SmaScenario ==
  /\ Projected
  /\ InputSeries = <<10, 20>>
  /\ settings.method = "sma"
  /\ settings.periods = 2
  /\ settings.confidenceLevel = Rat(95, 100)

\* ------------------------------------------------------------------------
\* C9 as stated: SMA with periods = 2 on the history [10, 20] at confidence
\* 0.95 gives every future point the forecast 15 and the interval
\* [0, 27.86], the low side clamped to 0.
\* ------------------------------------------------------------------------
C9_ClampedInterval ==
  SmaScenario =>
    \A k \in 1..Len(projections[1].projectedData) :
      /\ projections[1].projectedData[k].projectedDemand = Number(15)
      /\ projections[1].projectedData[k].confidenceLow = Zero
      /\ projections[1].projectedData[k].confidenceHigh = Rat(2786, 100)

\* C9 as the code has it: every future point has the forecast 15 and the
\* interval [2.14, 27.86]; the low side 15 - 2.571 * 5.0 is positive and is
\* not clamped (in exact arithmetic it is 2.145, which rounds to 2.14 or
\* 2.15 with the rounding of the square roots).
C9_OpenInterval ==
  SmaScenario =>
    \A k \in 1..Len(projections[1].projectedData) :
      /\ projections[1].projectedData[k].projectedDemand = Number(15)
      /\ projections[1].projectedData[k].confidenceLow
           \in {Rat(214, 100), Rat(215, 100)}
      /\ projections[1].projectedData[k].confidenceHigh = Rat(2786, 100)

C9_Witness ==
  /\ SmaScenario
  /\ Len(projections[1].projectedData) = 1
  /\ Less(Zero, projections[1].projectedData[1].confidenceLow)

\* ------------------------------------------------------------------------
\* C10: for every non-empty series, every method and every valid
\* configuration, the demand, confidenceLow and confidenceHigh of every
\* forecast point of generateProductProjection are finite numbers.
\* ------------------------------------------------------------------------
C10_FinitePoints ==
  Projected =>
    \A i \in 1..Len(projections) :
      \A k \in 1..Len(projections[i].projectedData) :
        /\ isFinite(projections[i].projectedData[k].projectedDemand)
        /\ isFinite(projections[i].projectedData[k].confidenceLow)
        /\ isFinite(projections[i].projectedData[k].confidenceHigh)

\* ------------------------------------------------------------------------
\* Helpers of C11: the per-point forecasts of a projection before the
\* rounding of the ProjectionPoint
\* ------------------------------------------------------------------------
AggregationOf(productId) ==
  aggregatedData[MapIndex(aggregatedData, productId)]

UnroundedForecasts(aggregation, st, period) ==
  CASE st.method = "sma" ->
         [k \in 1..timeframeToPeriods(st.timeframe, period) |->
            simpleMovingAverage(TotalQuantities(aggregation),
                                st.periods).forecast]
    [] st.method = "wma" ->
         [k \in 1..timeframeToPeriods(st.timeframe, period) |->
            weightedMovingAverage(TotalQuantities(aggregation),
                                  st.periods).forecast]
    [] st.method = "linear_regression" ->
         linearRegressionForecast(
           TotalQuantities(aggregation),
           timeframeToPeriods(st.timeframe, period)).forecasts

\* ------------------------------------------------------------------------
\* C11: rounding is applied only at the output boundary, so
\* totalProjectedDemand is the 2-decimal rounding of the sum of the
\* unrounded per-point forecasts.
\* ------------------------------------------------------------------------
C11_BoundaryRounding ==
  Projected =>
    \A i \in 1..Len(projections) :
      projections[i].totalProjectedDemand =
        Round2(Sum(UnroundedForecasts(AggregationOf(projections[i].productId),
                                      settings, aggregationPeriod)))

\* ------------------------------------------------------------------------
\* C12: every forecast point of every projection, whatever the method,
\* satisfies 0 <= confidenceLow <= projectedDemand <= confidenceHigh.
\* ------------------------------------------------------------------------
C12_OrderedBounds ==
  Projected =>
    \A i \in 1..Len(projections) :
      \A k \in 1..Len(projections[i].projectedData) :
        /\ LessEq(Zero, projections[i].projectedData[k].confidenceLow)
        /\ LessEq(projections[i].projectedData[k].confidenceLow,
                  projections[i].projectedData[k].projectedDemand)
        /\ LessEq(projections[i].projectedData[k].projectedDemand,
                  projections[i].projectedData[k].confidenceHigh)

\* ------------------------------------------------------------------------
\* Helpers of C13: the forecast points of a product at another confidence
\* level, everything else as in the state
\* ------------------------------------------------------------------------
PointsAtLevel(aggregation, level) ==
  ProjectedData(
    TotalQuantities(aggregation),
    generateFuturePeriods(orders[aggregation.lastOrderDate].date,
                          timeframeToPeriods(settings.timeframe,
                                             aggregationPeriod),
                          aggregationPeriod),
    timeframeToPeriods(settings.timeframe, aggregationPeriod),
    [settings EXCEPT !.confidenceLevel = level])

\* the next level of 0.90, 0.95
HigherLevel(level) ==
  IF level = Rat(90, 100) THEN Rat(95, 100) ELSE Rat(99, 100)

\* the interval of `wide` is not narrower than that of `point`
NotNarrower(point, wide) ==
  /\ ~Less(point.confidenceLow, wide.confidenceLow)
  /\ ~Less(wide.confidenceHigh, point.confidenceHigh)

\* ------------------------------------------------------------------------
\* C13: raising confidenceLevel from 0.90 to 0.95 or from 0.95 to 0.99,
\* series, method and remaining configuration fixed, narrows no forecast
\* point's interval: confidenceLow does not increase and confidenceHigh
\* does not decrease.
\* ------------------------------------------------------------------------
C13_Monotone ==
  (Projected /\ settings.confidenceLevel \in {Rat(90, 100), Rat(95, 100)}) =>
    \A i \in 1..Len(projections) :
      \A k \in 1..Len(projections[i].projectedData) :
        NotNarrower(
          projections[i].projectedData[k],
          PointsAtLevel(AggregationOf(projections[i].productId),
                        HigherLevel(settings.confidenceLevel))[k])

\* a point whose interval widens strictly on both sides from 0.90 to 0.95
C13_Witness ==
  /\ Projected
  /\ settings.confidenceLevel = Rat(90, 100)
  /\ projections # <<>>
  /\ projections[1].projectedData # <<>>
  /\ Less(PointsAtLevel(AggregationOf("P1"), Rat(95, 100))[1].confidenceLow,
          projections[1].projectedData[1].confidenceLow)
  /\ Less(projections[1].projectedData[1].confidenceHigh,
          PointsAtLevel(AggregationOf("P1"), Rat(95, 100))[1].confidenceHigh)

\* ------------------------------------------------------------------------
\* Helpers of C14: the critical value the lookup rule gives
\* ------------------------------------------------------------------------
Breakpoints == {5, 10, 20, 30, 50, 100}

\* the entry of `table` at the finite breakpoint b
EntryAt(table, b) ==
  (CHOOSE row \in {table[k] : k \in 1..Len(table)} : row.df = Number(b)).t

\* the entry of `table` at the breakpoint Infinity
EntryAtInfinity(table) ==
  (CHOOSE row \in {table[k] : k \in 1..Len(table)} : row.df = Infinity).t

\* df = n - 1, at least 1; the smallest breakpoint >= df, else Infinity
ExpectedTCritical(level, n) ==
  LET df == IF n - 1 < 1 THEN 1 ELSE n - 1
      above == {b \in Breakpoints : b >= df}
  IN  IF above = {} THEN EntryAtInfinity(T_CRITICAL(level))
      ELSE EntryAt(T_CRITICAL(level),
                   CHOOSE b \in above : \A c \in above : b <= c)

IntervalDone == pc = "done" /\ input.confidenceLevel \in ConfidenceLevels

\* ------------------------------------------------------------------------
\* C14: the critical value of an interval is looked up with df = n - 1 (at
\* least 1) and is the entry of the chosen level at the smallest breakpoint
\* of 5, 10, 20, 30, 50, 100 that is >= df, or the Infinity entry when
\* df > 100; df = 1 uses the row of 5 and df = 101 the row of Infinity.
\* ------------------------------------------------------------------------
C14_Lookup ==
  IntervalDone =>
    /\ output[2] =
         Add(input.forecast,
             Mul(ExpectedTCritical(input.confidenceLevel, input.sampleSize),
                 input.standardError))
    /\ output[1] =
         MathMax(Zero,
           Sub(input.forecast,
               Mul(ExpectedTCritical(input.confidenceLevel, input.sampleSize),
                   input.standardError)))
    /\ (input.sampleSize = 2 /\ input.confidenceLevel = Rat(95, 100)
          /\ input.standardError = Number(1))
         => output[2] = Add(input.forecast, Rat(2571, 1000))
    /\ (input.sampleSize = 102 /\ input.confidenceLevel = Rat(95, 100)
          /\ input.standardError = Number(1))
         => output[2] = Add(input.forecast, Rat(1960, 1000))

\* df = 101: a sample size past the last finite breakpoint
C14_Witness ==
  /\ IntervalDone
  /\ input.sampleSize = 102
  /\ input.confidenceLevel = Rat(99, 100)
  /\ input.standardError = Number(1)
  /\ output[2] = Add(input.forecast, Rat(2576, 1000))

\* ------------------------------------------------------------------------
\* Helpers of C15: the two significance tests in integer arithmetic (the
\* slopes and means of TrendInputs are whole numbers)
\* ------------------------------------------------------------------------
\* R-squared > 0.10
SignificantRSquared == 10 * input.rSquared.n > input.rSquared.d

\* |slope / mean| > 0.02, false for a zero mean
SignificantSlope ==
  /\ input.avgValue.n # 0
  /\ 100 * Abs(input.slope.n) > 2 * Abs(input.avgValue.n)

\* ------------------------------------------------------------------------
\* C15: determineTrend returns 'stable' unless both R-squared > 0.10 and
\* |slope / mean| > 0.02 hold strictly (a zero mean gives normalized slope
\* 0), and otherwise 'increasing' for slope > 0 and 'decreasing' for
\* slope < 0; mean 100, slope 1, R-squared 0.5 is 'stable'.
\* ------------------------------------------------------------------------
C15_Trend ==
  pc = "done" =>
    /\ ~(SignificantRSquared /\ SignificantSlope) => output = "stable"
    /\ (SignificantRSquared /\ SignificantSlope /\ input.slope.n > 0)
         => output = "increasing"
    /\ (SignificantRSquared /\ SignificantSlope /\ input.slope.n < 0)
         => output = "decreasing"
    /\ (input.avgValue = Number(100) /\ input.slope = Number(1)
          /\ input.rSquared = Rat(1, 2)) => output = "stable"

\* the normalized slope is exactly 0.02 and R-squared is above 0.10
C15_Witness ==
  /\ pc = "done"
  /\ input.avgValue = Number(100)
  /\ input.slope = Number(2)
  /\ input.rSquared = Rat(1, 2)
  /\ output = "stable"

\* the normalized slope is above 0.02 and R-squared is exactly 0.10
C15_WitnessRSquared ==
  /\ pc = "done"
  /\ input.avgValue = Number(50)
  /\ input.slope = Number(-2)
  /\ input.rSquared = Rat(1, 10)
  /\ output = "stable"

\* ------------------------------------------------------------------------
\* C16: for every perfectly linear series y_i = a + b * i (n >= 2, b # 0)
\* linearRegression returns slope b, intercept a and R-squared 1; for
\* [10, 20, 30, 40] it returns slope 10, intercept 10, R-squared 1.
\* (a and b are whole numbers here, for which the sums of the regression
\* are exact in IEEE doubles as well.)
\* ------------------------------------------------------------------------
C16_PerfectLine ==
  pc = "done" =>
    /\ input.b # 0 =>
         /\ output.slope = Number(input.b)
         /\ output.intercept = Number(input.a)
         /\ output.rSquared = Number(1)
    /\ input.values = <<Number(10), Number(20), Number(30), Number(40)>> =>
         output = [slope |-> Number(10), intercept |-> Number(10),
                   rSquared |-> Number(1)]

C16_Witness ==
  /\ pc = "done"
  /\ input.values = <<Number(10), Number(20), Number(30), Number(40)>>
  /\ output.slope = Number(10)

\* a falling line of the largest length
C16_WitnessFalling ==
  /\ pc = "done"
  /\ input.b < 0
  /\ Len(input.values) = MaxLineLen
  /\ output.slope = Number(input.b)

\* ------------------------------------------------------------------------
\* Helpers of C17
\* ------------------------------------------------------------------------
\* the historical quantities of the product of the i-th metrics entry
QuantitiesOfMetrics(i) ==
  TotalQuantities(AggregationOf(metrics[i].productId))

\* all values of the series are equal
IsConstant(values) == \A k \in 1..Len(values) : values[k] = values[1]

\* ------------------------------------------------------------------------
\* C17: for every series trendStrength (R-squared) lies in [0, 1]; a
\* single-bucket series gives slope 0, intercept equal to the value of the
\* bucket and R-squared 0; a constant series of any length gives slope 0
\* and R-squared 0.
\* ------------------------------------------------------------------------
C17_RSquaredRange ==
  MetricsDone =>
    \A i \in 1..Len(metrics) :
      /\ LessEq(Zero, metrics[i].trendStrength)
      /\ LessEq(metrics[i].trendStrength, Number(1))
      /\ Len(QuantitiesOfMetrics(i)) = 1 =>
           /\ metrics[i].trendSlope = Zero
           /\ metrics[i].trendStrength = Zero
           /\ linearRegression(QuantitiesOfMetrics(i)).intercept
                = QuantitiesOfMetrics(i)[1]
      /\ IsConstant(QuantitiesOfMetrics(i)) =>
           /\ metrics[i].trendSlope = Zero
           /\ metrics[i].trendStrength = Zero

\* a constant series of more than one bucket
C17_Witness ==
  /\ pc = "metrics"
  /\ metrics # <<>>
  /\ Len(QuantitiesOfMetrics(1)) >= 3
  /\ IsConstant(QuantitiesOfMetrics(1))
  /\ metrics[1].trendStrength = Zero

\* a single bucket
C17_WitnessSingle ==
  /\ pc = "metrics"
  /\ metrics # <<>>
  /\ QuantitiesOfMetrics(1) = <<Number(100)>>
  /\ metrics[1].trendSlope = Zero

\* a series whose fit is neither perfect nor absent
C17_WitnessPartial ==
  /\ pc = "metrics"
  /\ metrics # <<>>
  /\ Less(Zero, metrics[1].trendStrength)
  /\ Less(metrics[1].trendStrength, Number(1))

\* ------------------------------------------------------------------------
\* Helpers of C18 to C20: the moving-average window of a product
\* ------------------------------------------------------------------------
\* the last min(periods, n) historical quantities of the i-th projection
WindowOf(i) ==
  SliceLast(TotalQuantities(AggregationOf(projections[i].productId)),
            Min(settings.periods,
                Len(AggregationOf(projections[i].productId).data)))

\* the point carries no interval: confidenceLow = demand = confidenceHigh
Degenerate(point) ==
  /\ point.confidenceLow = point.projectedDemand
  /\ point.confidenceHigh = point.projectedDemand

\* ------------------------------------------------------------------------
\* C18: a zero standard deviation is never divided by: a constant series
\* flags no outliers, and when the window of SMA or WMA holds equal values
\* the standard error is 0, so every forecast point has
\* confidenceLow = demand = confidenceHigh.
\* ------------------------------------------------------------------------
C18_ZeroDeviation ==
  /\ MetricsDone =>
       \A i \in 1..Len(metrics) :
         IsConstant(QuantitiesOfMetrics(i)) => metrics[i].outliers = <<>>
  /\ (Projected /\ settings.method \in {"sma", "wma"}) =>
       \A i \in 1..Len(projections) :
         IsConstant(WindowOf(i)) =>
           /\ simpleMovingAverage(WindowOf(i), settings.periods).standardError
                = Zero
           /\ weightedMovingAverage(WindowOf(i), settings.periods).standardError
                = Zero
           /\ \A k \in 1..Len(projections[i].projectedData) :
                /\ isFinite(projections[i].projectedData[k].projectedDemand)
                /\ Degenerate(projections[i].projectedData[k])

\* WMA over a window of two equal values that follow a different value
C18_Witness ==
  /\ Projected
  /\ settings.method = "wma"
  /\ InputSeries = <<100, 10, 10>>
  /\ settings.periods = 2
  /\ projections[1].projectedData # <<>>
  /\ Degenerate(projections[1].projectedData[1])
  /\ metrics[1].outliers = <<>>

\* a constant series of five buckets under SMA
C18_WitnessConstant ==
  /\ Projected
  /\ settings.method = "sma"
  /\ InputSeries = <<10, 10, 10, 10, 10>>
  /\ metrics[1].outliers = <<>>
  /\ Degenerate(projections[1].projectedData[1])

\* ------------------------------------------------------------------------
\* Helpers of C19 and C20: the window and its statistics in integer
\* arithmetic, from the bucket totals of the aggregation
\* ------------------------------------------------------------------------
RECURSIVE IntSum(_)
IntSum(s) == IF s = <<>> THEN 0 ELSE Head(s) + IntSum(Tail(s))

\* the bucket totals of the product of the i-th projection
TotalsOf(i) ==
  [k \in 1..Len(AggregationOf(projections[i].productId).data) |->
     AggregationOf(projections[i].productId).data[k].totalQuantity]

\* w = min(periods, n)
WindowSize(i) == Min(settings.periods, Len(TotalsOf(i)))

\* the last w bucket totals, oldest first
LastTotals(i) ==
  [k \in 1..WindowSize(i) |->
     TotalsOf(i)[Len(TotalsOf(i)) - WindowSize(i) + k]]

\* the interval of a forecast f with standard error se at the settings
ExpectedPoint(i, f, se) ==
  [projectedDemand |-> Round2(f),
   confidenceLow   |->
     Round2(MathMax(Zero,
       Sub(f, Mul(getTCritical(settings.confidenceLevel,
                               Max(1, Len(TotalsOf(i)) - 1)), se)))),
   confidenceHigh  |->
     Round2(Add(f, Mul(getTCritical(settings.confidenceLevel,
                                    Max(1, Len(TotalsOf(i)) - 1)), se)))]

\* every forecast point of the i-th projection is the point `e`
AllPointsAre(i, e) ==
  \A k \in 1..Len(projections[i].projectedData) :
    /\ projections[i].projectedData[k].projectedDemand = e.projectedDemand
    /\ projections[i].projectedData[k].confidenceLow = e.confidenceLow
    /\ projections[i].projectedData[k].confidenceHigh = e.confidenceHigh

\* mean of the window: sum / w
SmaMean(v) == Rat(IntSum(v), Len(v))

\* sample variance of the window: (w * sum of squares - sum^2) / (w (w - 1))
SmaVariance(v) ==
  IF Len(v) < 2 THEN Zero
  ELSE Rat(Len(v) * IntSum([k \in 1..Len(v) |-> v[k] * v[k]])
             - IntSum(v) * IntSum(v),
           Len(v) * (Len(v) - 1))

\* sample standard deviation over the square root of the window size
SmaError(v) == Div(MathSqrt(SmaVariance(v)), MathSqrt(Number(Len(v))))

\* ------------------------------------------------------------------------
\* C19: the SMA forecast is the arithmetic mean of the last min(periods, n)
\* historical quantities, the same at every forecast point, and its
\* standard error is the sample (n - 1 divisor) standard deviation of that
\* window divided by the square root of the window size.
\* ------------------------------------------------------------------------
C19_Sma ==
  (Projected /\ settings.method = "sma") =>
    \A i \in 1..Len(projections) :
      /\ simpleMovingAverage(
           TotalQuantities(AggregationOf(projections[i].productId)),
           settings.periods)
           = [forecast |-> SmaMean(LastTotals(i)),
              standardError |-> SmaError(LastTotals(i))]
      /\ AllPointsAre(i, ExpectedPoint(i, SmaMean(LastTotals(i)),
                                       SmaError(LastTotals(i))))

\* a window shorter than the series, with unequal values
C19_Witness ==
  /\ Projected
  /\ settings.method = "sma"
  /\ InputSeries = <<100, 10, 20>>
  /\ settings.periods = 2
  /\ Len(projections[1].projectedData) > 1
  /\ projections[1].projectedData[2].projectedDemand = Number(15)

\* weights 1..w: W = w (w + 1) / 2
WmaWeight(v) == (Len(v) * (Len(v) + 1)) \div 2

\* A = sum of k * v[k]
WmaSum(v) == IntSum([k \in 1..Len(v) |-> k * v[k]])

\* weighted mean A / W
WmaMean(v) == Rat(WmaSum(v), WmaWeight(v))

\* weighted variance: sum of k * (v[k] - A/W)^2 over W
WmaSpread(v) ==
  Rat(IntSum([k \in 1..Len(v) |->
                k * (v[k] * WmaWeight(v) - WmaSum(v))
                  * (v[k] * WmaWeight(v) - WmaSum(v))]),
      WmaWeight(v) * WmaWeight(v) * WmaWeight(v))

\* square root of the weighted variance over the square root of w
WmaError(v) == Div(MathSqrt(WmaSpread(v)), MathSqrt(Number(Len(v))))

\* ------------------------------------------------------------------------
\* C20: over the last w = min(periods, n) quantities with weights 1..w
\* (largest on the most recent bucket) the WMA forecast is
\* sum(weight * value) / sum(weight), the same at every forecast point, and
\* the standard error is sqrt(sum(weight * (value - forecast)^2) /
\* sum(weight)) divided by sqrt(w).
\* ------------------------------------------------------------------------
C20_Wma ==
  (Projected /\ settings.method = "wma") =>
    \A i \in 1..Len(projections) :
      /\ weightedMovingAverage(
           TotalQuantities(AggregationOf(projections[i].productId)),
           settings.periods)
           = [forecast |-> WmaMean(LastTotals(i)),
              standardError |-> WmaError(LastTotals(i))]
      /\ AllPointsAre(i, ExpectedPoint(i, WmaMean(LastTotals(i)),
                                       WmaError(LastTotals(i))))

\* a window shorter than the series: (1 * 10 + 2 * 20) / 3 = 16.67
C20_Witness ==
  /\ Projected
  /\ settings.method = "wma"
  /\ InputSeries = <<100, 10, 20>>
  /\ settings.periods = 2
  /\ Len(projections[1].projectedData) > 1
  /\ projections[1].projectedData[2].projectedDemand = Rat(1667, 100)

\* ------------------------------------------------------------------------
\* Helpers of C21 and C22: the ordinary least squares fit over the indices
\* 0..n-1 in integer arithmetic
\* ------------------------------------------------------------------------
\* sum of the indices, of their squares, and of index times value
OlsSx(n) == IntSum([k \in 1..n |-> k - 1])
OlsSxx(n) == IntSum([k \in 1..n |-> (k - 1) * (k - 1)])
OlsSxy(v) == IntSum([k \in 1..Len(v) |-> (k - 1) * v[k]])

\* n * Sxx - Sx^2 and n * Sxy - Sx * Sy: slope = OlsSlopeNum / OlsDen
OlsDen(n) == n * OlsSxx(n) - OlsSx(n) * OlsSx(n)
OlsSlopeNum(v) == Len(v) * OlsSxy(v) - OlsSx(Len(v)) * IntSum(v)

\* intercept + slope * x of the fit; a single value is its own fit
OlsPredict(v, x) ==
  IF Len(v) < 2 THEN Number(v[1])
  ELSE Rat(IntSum(v) * OlsDen(Len(v)) - OlsSlopeNum(v) * OlsSx(Len(v))
             + OlsSlopeNum(v) * Len(v) * x,
           Len(v) * OlsDen(Len(v)))

\* ------------------------------------------------------------------------
\* C21: with n historical buckets the i-th forecast point (i = 0, 1, ...)
\* of the linear-regression forecast equals max(0, intercept +
\* slope * (n + i)) of the least squares fit over the indices 0..n-1, so no
\* forecast demand is negative even for a steeply decreasing series.
\* ------------------------------------------------------------------------
C21_FlooredRegression ==
  (Projected /\ settings.method = "linear_regression") =>
    \A i \in 1..Len(projections) :
      \A k \in 1..Len(projections[i].projectedData) :
        /\ linearRegressionForecast(
             TotalQuantities(AggregationOf(projections[i].productId)),
             Len(projections[i].projectedData)).forecasts[k]
             = MathMax(Zero,
                       OlsPredict(TotalsOf(i), Len(TotalsOf(i)) + k - 1))
        /\ projections[i].projectedData[k].projectedDemand
             = Round2(MathMax(Zero,
                       OlsPredict(TotalsOf(i), Len(TotalsOf(i)) + k - 1)))
        /\ LessEq(Zero, projections[i].projectedData[k].projectedDemand)

\* a steeply decreasing series whose fitted line is below 0 on the horizon
C21_Witness ==
  /\ Projected
  /\ settings.method = "linear_regression"
  /\ InputSeries = <<100, 100, 10>>
  /\ Less(OlsPredict(InputSeries, 3), Zero)
  /\ Len(projections[1].projectedData) > 1
  /\ projections[1].projectedData[1].projectedDemand = Zero

\* an increasing series: the forecast is the value of the line
C21_WitnessRising ==
  /\ Projected
  /\ settings.method = "linear_regression"
  /\ InputSeries = <<10, 20, 100>>
  /\ projections[1].projectedData[1].projectedDemand = Rat(13333, 100)

\* ------------------------------------------------------------------------
\* Helpers of C22
\* ------------------------------------------------------------------------
\* SS_res of the fit: ((n * Syy - Sy^2) * D - slopeNum^2) / (n * D)
OlsResidualSS(v) ==
  Rat((Len(v) * IntSum([k \in 1..Len(v) |-> v[k] * v[k]])
         - IntSum(v) * IntSum(v)) * OlsDen(Len(v))
        - OlsSlopeNum(v) * OlsSlopeNum(v),
      Len(v) * OlsDen(Len(v)))

\* residualStdError = sqrt(SS_res / (n - 2))
OlsResidualStdError(v) ==
  MathSqrt(Div(OlsResidualSS(v), Number(Len(v) - 2)))

\* 1 + 1/n + (x - xMean)^2 / sum of (x_j - xMean)^2, with xMean = (n-1)/2
\* and the sum equal to D / n
OlsWidening(n, x) ==
  Rat(4 * OlsDen(n) * n + 4 * OlsDen(n)
        + n * n * (2 * x - n + 1) * (2 * x - n + 1),
      4 * OlsDen(n) * n)

\* the standard error of the forecast point at index x
OlsPointError(v, x) ==
  Mul(OlsResidualStdError(v), MathSqrt(OlsWidening(Len(v), x)))

\* the standardErrors of the linear-regression forecast of projection i
StandardErrorsOf(i) ==
  linearRegressionForecast(
    TotalQuantities(AggregationOf(projections[i].productId)),
    Len(projections[i].projectedData)).standardErrors

\* ------------------------------------------------------------------------
\* C22: for a series of at least 3 buckets the standard error of the
\* forecast point x = n + i of the linear-regression forecast is
\* residualStdError * sqrt(1 + 1/n + (x - xMean)^2 / sum (x_j - xMean)^2)
\* with residualStdError = sqrt(SS_res / (n - 2)); it is non-decreasing in
\* i and strictly increasing whenever the residual standard error is
\* positive.
\* ------------------------------------------------------------------------
C22_Widening ==
  (Projected /\ settings.method = "linear_regression") =>
    \A i \in 1..Len(projections) :
      Len(TotalsOf(i)) >= 3 =>
        \A k \in 1..Len(projections[i].projectedData) :
          /\ StandardErrorsOf(i)[k]
               = OlsPointError(TotalsOf(i), Len(TotalsOf(i)) + k - 1)
          /\ projections[i].projectedData[k].confidenceHigh
               = ExpectedPoint(i,
                   MathMax(Zero, OlsPredict(TotalsOf(i),
                                            Len(TotalsOf(i)) + k - 1)),
                   OlsPointError(TotalsOf(i),
                                 Len(TotalsOf(i)) + k - 1)).confidenceHigh
          /\ k > 1 =>
               /\ LessEq(StandardErrorsOf(i)[k - 1], StandardErrorsOf(i)[k])
               /\ Less(Zero, OlsResidualStdError(TotalsOf(i))) =>
                    Less(StandardErrorsOf(i)[k - 1], StandardErrorsOf(i)[k])

\* a series off its fitted line: the standard error grows along the horizon
C22_Witness ==
  /\ Projected
  /\ settings.method = "linear_regression"
  /\ InputSeries = <<10, 100, 10>>
  /\ Len(projections[1].projectedData) > 1
  /\ Less(Zero, StandardErrorsOf(1)[1])
  /\ Less(StandardErrorsOf(1)[1], StandardErrorsOf(1)[2])

\* a series on its fitted line: the standard error is 0 at every point
C22_WitnessExact ==
  /\ Projected
  /\ settings.method = "linear_regression"
  /\ InputSeries = <<10, 10, 10>>
  /\ Len(projections[1].projectedData) > 1
  /\ StandardErrorsOf(1)[2] = Zero

\* ------------------------------------------------------------------------
\* Helpers of C23
\* ------------------------------------------------------------------------
TimeframeDone == pc = "done" /\ input \in TimeframeInputs

\* the string is a count of weeks: digits, "_", week or weeks
IsWeeks(in) ==
  /\ in.prefix = <<>> /\ in.digits # <<>> /\ in.sep = "_"
  /\ in.unit \in {<<"w", "e", "e", "k">>, <<"w", "e", "e", "k", "s">>}

\* the string is a count of months: digits, "_", month or months
IsMonths(in) ==
  /\ in.prefix = <<>> /\ in.digits # <<>> /\ in.sep = "_"
  /\ in.unit \in {<<"m", "o", "n", "t", "h">>,
                   <<"m", "o", "n", "t", "h", "s">>}

\* the decimal value of a run of digits
RECURSIVE Decimal(_)
Decimal(d) ==
  IF d = <<>> THEN 0
  ELSE 10 * Decimal(SubSeq(d, 1, Len(d) - 1))
         + (CHOOSE v \in 0..9 : ToString(v) = d[Len(d)])

\* ceil(N * periodsPerWeek) and ceil(N * periodsPerMonth) in integers
CeilWeeks(N, period) ==
  CASE period = "daily"   -> 7 * N
    [] period = "weekly"  -> N
    [] period = "monthly" -> (N + 3) \div 4

CeilMonths(N, period) ==
  CASE period = "daily"   -> 30 * N
    [] period = "weekly"  -> (433 * N + 99) \div 100
    [] period = "monthly" -> N

\* ------------------------------------------------------------------------
\* C23: the number of forecast points is ceil(N * periodsPerWeek) for a
\* timeframe of N weeks and ceil(N * periodsPerMonth) for a timeframe of N
\* months (daily (7, 30), weekly (1, 4.33), monthly (0.25, 1)), and any
\* unknown or unsupported timeframe string yields exactly 4 forecast
\* points.
\* ------------------------------------------------------------------------
C23_Horizon ==
  TimeframeDone =>
    output = CASE IsWeeks(input)  -> CeilWeeks(Decimal(input.digits),
                                               aggregationPeriod)
               [] IsMonths(input) -> CeilMonths(Decimal(input.digits),
                                                aggregationPeriod)
               [] OTHER           -> 4

\* ------------------------------------------------------------------------
\* Helpers of C24: the figures in integer arithmetic, from the forecast
\* points of the projection in hundredths
\* ------------------------------------------------------------------------
\* ceil(a / b) for a >= 0 and b > 0
CeilDiv(a, b) == (a + b - 1) \div b

\* the demand of the forecast points of projection i in hundredths
PointCents(i) ==
  [k \in 1..Len(projections[i].projectedData) |->
     (projections[i].projectedData[k].projectedDemand.n * 100)
       \div projections[i].projectedData[k].projectedDemand.d]

\* ceil(avgForecastDemand * safetyStockPercent / 100)
ExpectedSafetyStock(i) ==
  IF PointCents(i) = <<>> THEN 0
  ELSE CeilDiv(IntSum(PointCents(i)) * settings.safetyStockPercent,
               Len(PointCents(i)) * 100 * 100)

\* ceil(avgDailyDemand * leadTimeDays + safetyStock)
ExpectedReorderPoint(i) ==
  CeilDiv(projections[i].metrics.avgDailyDemand.n * settings.leadTimeDays
            + ExpectedSafetyStock(i) * projections[i].metrics.avgDailyDemand.d,
          projections[i].metrics.avgDailyDemand.d)

\* ceil(totalForecastDemand + safetyStock)
ExpectedReorderQty(i) ==
  CeilDiv(IntSum(PointCents(i)) + 100 * ExpectedSafetyStock(i), 100)

\* ------------------------------------------------------------------------
\* C24: for every projection safetyStock = ceil(avgForecastDemand *
\* safetyStockPercent / 100), reorderPoint = ceil(avgDailyDemand *
\* leadTimeDays + safetyStock) and suggestedReorderQty =
\* ceil(totalForecastDemand + safetyStock); so reorderPoint >= safetyStock
\* and suggestedReorderQty >= safetyStock, and with an empty horizon
\* safetyStock and suggestedReorderQty are 0.
\* ------------------------------------------------------------------------
C24_InventoryFigures ==
  Projected =>
    \A i \in 1..Len(projections) :
      /\ projections[i].safetyStock = Number(ExpectedSafetyStock(i))
      /\ projections[i].reorderPoint = Number(ExpectedReorderPoint(i))
      /\ projections[i].suggestedReorderQty = Number(ExpectedReorderQty(i))
      /\ LessEq(projections[i].safetyStock, projections[i].reorderPoint)
      /\ LessEq(projections[i].safetyStock,
                projections[i].suggestedReorderQty)
      /\ projections[i].projectedData = <<>> =>
           /\ projections[i].safetyStock = Zero
           /\ projections[i].suggestedReorderQty = Zero

\* SMA over <<10, 20>> on 7 daily points: safety stock ceil(15 * 0.2) = 3,
\* reorder point ceil(15 * 7 + 3) = 108, quantity ceil(105 + 3) = 108
C24_Witness ==
  /\ Projected
  /\ aggregationPeriod = "daily"
  /\ settings.method = "sma"
  /\ settings.safetyStockPercent = 20
  /\ InputSeries = <<10, 20>>
  /\ projections[1].safetyStock = Number(3)
  /\ projections[1].reorderPoint = Number(108)
  /\ projections[1].suggestedReorderQty = Number(108)

\* the empty horizon of the timeframe "0_weeks"
C24_WitnessEmptyHorizon ==
  /\ Projected
  /\ settings.timeframe = ZeroWeeks
  /\ Len(projections) = 1
  /\ projections[1].projectedData = <<>>
  /\ projections[1].suggestedReorderQty = Zero

\* ------------------------------------------------------------------------
\* Helpers of C25: the monthly averages of a series of monthly buckets
\* whose first bucket is December, in integer arithmetic
\* ------------------------------------------------------------------------
\* the bucket totals of the i-th metrics record
SeriesOfMetrics(i) ==
  [k \in 1..Len(AggregationOf(metrics[i].productId).data) |->
     AggregationOf(metrics[i].productId).data[k].totalQuantity]

\* the buckets of calendar month c (0 = January) of a series of length n
BucketsOfMonth(n, c) == {k \in 1..n : (k + 10) % 12 = c}

RECURSIVE SumOver(_, _)
SumOver(v, K) ==
  IF K = {} THEN 0
  ELSE LET k == CHOOSE x \in K : TRUE IN v[k] + SumOver(v, K \ {k})

\* twice the average quantity of calendar month c (a month has one or two
\* buckets)
TwiceMonthAverage(v, c) ==
  (2 * SumOver(v, BucketsOfMonth(Len(v), c)))
    \div Cardinality(BucketsOfMonth(Len(v), c))

\* the sum over the 12 months of twice the monthly average
TwiceAverages(v) == IntSum([m \in 1..12 |-> TwiceMonthAverage(v, m - 1)])

\* the sample variance of the 12 indices 12 * A_m / S is at least 0.01:
\* 100 * sum (12 * A_m - S)^2 >= 11 * S^2
SignificantSeason(v) ==
  100 * IntSum([m \in 1..12 |->
                 (12 * TwiceMonthAverage(v, m - 1) - TwiceAverages(v))
                   * (12 * TwiceMonthAverage(v, m - 1) - TwiceAverages(v))])
    >= 11 * TwiceAverages(v) * TwiceAverages(v)

\* entry m: the average of month m over the average of the 12 averages
ExpectedIndex(v, m) ==
  Div(Rat(TwiceMonthAverage(v, m - 1), 2), Rat(TwiceAverages(v), 24))

\* ------------------------------------------------------------------------
\* C25: seasonalityIndex is present only when the bucket width is monthly
\* and the series has at least 12 buckets; when present it has exactly 12
\* entries, entry m being the average quantity of calendar month m divided
\* by the average of the 12 monthly averages, and the sample variance of
\* the 12 entries is at least 0.01; otherwise (including an all-zero
\* series) it is absent.
\* ------------------------------------------------------------------------
C25_Seasonality ==
  MetricsDone =>
    \A i \in 1..Len(metrics) :
      IF /\ aggregationPeriod = "monthly"
         /\ Len(SeriesOfMetrics(i)) >= 12
         /\ TwiceAverages(SeriesOfMetrics(i)) # 0
         /\ SignificantSeason(SeriesOfMetrics(i))
        THEN /\ Len(metrics[i].seasonalityIndex) = 12
             /\ \A m \in 1..12 :
                  metrics[i].seasonalityIndex[m]
                    = ExpectedIndex(SeriesOfMetrics(i), m)
             /\ ~Less(variance(metrics[i].seasonalityIndex), Rat(1, 100))
        ELSE metrics[i].seasonalityIndex = Undefined

\* a year of monthly buckets with one month at twice the others
C25_Witness ==
  /\ MetricsDone
  /\ aggregationPeriod = "monthly"
  /\ InputSeries = PeakSeries(12, 10, 3, 20)
  /\ Len(metrics[1].seasonalityIndex) = 12
  /\ Less(Number(1), metrics[1].seasonalityIndex[2])
  /\ Less(metrics[1].seasonalityIndex[1], Number(1))

\* a peak too small for the variance threshold: absent
C25_WitnessFlat ==
  /\ MetricsDone
  /\ aggregationPeriod = "monthly"
  /\ InputSeries = PeakSeries(13, 10, 3, 13)
  /\ metrics[1].seasonalityIndex = Undefined

\* an all-zero year: absent
C25_WitnessZero ==
  /\ MetricsDone
  /\ aggregationPeriod = "monthly"
  /\ InputSeries = PeakSeries(12, 0, 1, 0)
  /\ metrics[1].seasonalityIndex = Undefined

\* 12 weekly buckets with a peak: absent
C25_WitnessWeekly ==
  /\ MetricsDone
  /\ aggregationPeriod = "weekly"
  /\ InputSeries = PeakSeries(12, 10, 3, 20)
  /\ metrics[1].seasonalityIndex = Undefined

\* ------------------------------------------------------------------------
\* Helpers of C26: the three rates as multiples a / b of the mean bucket
\* quantity sum / n
\* ------------------------------------------------------------------------
RateOf(v, a, b) == Rat(IntSum(v) * a, Len(v) * b)

ExpectedRates(v, period) ==
  CASE period = "daily" ->
         [daily |-> RateOf(v, 1, 1), weekly |-> RateOf(v, 7, 1),
          monthly |-> RateOf(v, 30, 1)]
    [] period = "weekly" ->
         [daily |-> RateOf(v, 1, 7), weekly |-> RateOf(v, 1, 1),
          monthly |-> RateOf(v, 433, 100)]
    [] period = "monthly" ->
         [daily |-> RateOf(v, 1, 28), weekly |-> RateOf(v, 1, 4),
          monthly |-> RateOf(v, 1, 1)]

\* ------------------------------------------------------------------------
\* C26: for a series with mean bucket quantity m, avgDailyDemand =
\* m / (7 / periodsPerWeek), avgWeeklyDemand = m * periodsPerWeek and
\* avgMonthlyDemand = m * periodsPerMonth with the constants daily (7, 30),
\* weekly (1, 4.33), monthly (0.25, 1); so weekly buckets give m / 7 a day
\* and monthly buckets m / 28 a day and m / 4 a week.
\* ------------------------------------------------------------------------
C26_Rates ==
  MetricsDone =>
    \A i \in 1..Len(metrics) :
      /\ metrics[i].avgDailyDemand
           = ExpectedRates(SeriesOfMetrics(i), aggregationPeriod).daily
      /\ metrics[i].avgWeeklyDemand
           = ExpectedRates(SeriesOfMetrics(i), aggregationPeriod).weekly
      /\ metrics[i].avgMonthlyDemand
           = ExpectedRates(SeriesOfMetrics(i), aggregationPeriod).monthly

\* weekly buckets of mean 15: 15/7 a day, 15 a week, 64.95 a month
C26_Witness ==
  /\ MetricsDone
  /\ aggregationPeriod = "weekly"
  /\ InputSeries = <<10, 20>>
  /\ metrics[1].avgDailyDemand = Rat(15, 7)
  /\ metrics[1].avgWeeklyDemand = Number(15)
  /\ metrics[1].avgMonthlyDemand = Rat(6495, 100)

\* monthly buckets of mean 15: 15/28 a day, 15/4 a week
C26_WitnessMonthly ==
  /\ MetricsDone
  /\ aggregationPeriod = "monthly"
  /\ InputSeries = <<10, 20>>
  /\ metrics[1].avgDailyDemand = Rat(15, 28)
  /\ metrics[1].avgWeeklyDemand = Rat(15, 4)

\* ------------------------------------------------------------------------
\* Helpers of C27
\* ------------------------------------------------------------------------
\* no asynchronous step is pending
Quiescent == pc = "app" /\ uploads = <<>> /\ timers = <<>>

\* ------------------------------------------------------------------------
\* C27: after any sequence of file uploads (several files in one
\* processFiles call included), settings changes and bucket-width changes,
\* once every pending asynchronous step has completed the stored
\* aggregatedData, metrics and projections equal the pipeline applied to
\* the full current order list with the current aggregationPeriod and
\* settings.
\* ------------------------------------------------------------------------
C27_Recomputed ==
  Quiescent =>
    /\ aggregatedData = aggregateOrderData(orders, aggregationPeriod).map
    /\ metrics = calculateAllMetrics(aggregatedData, aggregationPeriod)
    /\ projections
         = generateAllProjections(aggregatedData, metrics, settings,
                                  aggregationPeriod, orders)

\* ------------------------------------------------------------------------
\* Helpers of C28
\* ------------------------------------------------------------------------
\* the interval of a level that has no table has been computed
OffTableDone == pc = "done" /\ input \in IntervalInputs
                  /\ input.confidenceLevel \notin ConfidenceLevels

\* the interval the lookup rule gives at `level`
ExpectedInterval(level) ==
  <<MathMax(Zero,
      Sub(input.forecast,
          Mul(ExpectedTCritical(level, input.sampleSize),
              input.standardError))),
    Add(input.forecast,
        Mul(ExpectedTCritical(level, input.sampleSize),
            input.standardError))>>

\* ------------------------------------------------------------------------
\* C28: a confidenceLevel that is not exactly 0.90, 0.95 or 0.99 (0.80 or
\* 0.85, say) is treated as 0.95: the interval is the one of level 0.95, so
\* raising the level from 0.80 to 0.90 narrows the interval.
\* ------------------------------------------------------------------------
C28_OffTableLevel ==
  OffTableDone =>
    /\ output = ExpectedInterval(Rat(95, 100))
    /\ Less(ExpectedInterval(Rat(90, 100))[2], output[2])
    /\ LessEq(output[1], ExpectedInterval(Rat(90, 100))[1])

\* level 0.80 on 11 values: 15 +- 2.228 * 5, against 15 +- 1.812 * 5 at
\* level 0.90
C28_Witness ==
  /\ OffTableDone
  /\ input.confidenceLevel = Rat(80, 100)
  /\ input.sampleSize = 11
  /\ input.standardError = Number(5)
  /\ output = <<Rat(386, 100), Rat(2614, 100)>>
  /\ ExpectedInterval(Rat(90, 100)) = <<Rat(594, 100), Rat(2406, 100)>>

\* ------------------------------------------------------------------------
\* Helpers of C29
\* ------------------------------------------------------------------------
\* the period starts of a projection: the historical points, then the
\* forecast points
PeriodStartsOf(i) ==
  [k \in 1..Len(projections[i].historicalData) |->
     projections[i].historicalData[k].period]
  \o [k \in 1..Len(projections[i].projectedData) |->
        projections[i].projectedData[k].period]

\* from the last historical point on, each start is one bucket width after
\* the one before it
ContinuesSeries(i) ==
  \A k \in Len(projections[i].historicalData)
            ..(Len(PeriodStartsOf(i)) - 1) :
    OneWidthApart(PeriodStartsOf(i)[k], PeriodStartsOf(i)[k + 1],
                  aggregationPeriod)

\* ------------------------------------------------------------------------
\* C29: forecast periods continue the historical series without gap or
\* overlap: in every projection the first forecast point starts exactly
\* one bucket width after the last historical bucket's start, each later
\* forecast point exactly one bucket width after the previous one, and
\* there are as many historical points as the series has buckets.
\* ------------------------------------------------------------------------
C29_Continuation ==
  Projected =>
    \A i \in 1..Len(projections) :
      /\ Len(projections[i].historicalData)
           = Len(AggregationOf(projections[i].productId).data)
      /\ Len(projections[i].historicalData) = Len(orders)
      /\ \A k \in 1..Len(projections[i].historicalData) :
           /\ ~projections[i].historicalData[k].isForecast
           /\ projections[i].historicalData[k].period
                = AggregationOf(projections[i].productId).data[k].period
      /\ \A k \in 1..Len(projections[i].projectedData) :
           projections[i].projectedData[k].isForecast
      /\ ContinuesSeries(i)

\* three monthly buckets (December 2024 to February 2025) continued by
\* March 2025
C29_Witness ==
  /\ Projected
  /\ aggregationPeriod = "monthly"
  /\ Len(projections) = 1
  /\ Len(projections[1].historicalData) = 3
  /\ Len(projections[1].projectedData) = 1
  /\ projections[1].historicalData[3].period = NewDate(2025, 1, 1)
  /\ projections[1].projectedData[1].period = NewDate(2025, 2, 1)

\* two weekly buckets continued by two weeks
C29_WitnessWeekly ==
  /\ Projected
  /\ aggregationPeriod = "weekly"
  /\ Len(projections) = 1
  /\ Len(projections[1].historicalData) = 2
  /\ Len(projections[1].projectedData) = 2
  /\ projections[1].historicalData[2].period = NewDate(2025, 0, 6)
  /\ projections[1].projectedData[1].period = NewDate(2025, 0, 13)
  /\ projections[1].projectedData[2].period = NewDate(2025, 0, 20)

\* ------------------------------------------------------------------------
\* Helpers of C30
\* ------------------------------------------------------------------------
OutliersDone == pc = "done"

\* the z-score of the k-th item of the input
ZScoreOfItem(k) ==
  zScore(input[k].quantity, mean(QuantitiesOf(input)),
         stdDeviation(QuantitiesOf(input)))

C30_WitnessNine ==
  /\ OutliersDone
  /\ Len(input) = 9
  /\ Len(output) = 1
  /\ output[1].period = input[9].period
  /\ output[1].type = "spike"
  /\ Less(DefaultZScoreThreshold, output[1].zScore)

====
